---- MODULE Spec2Model ----
(***************************************************************************)
(* A model of the Azure provisioning chatbot: the slot extractor           *)
(* (nlp_processor.py), the conversation store and dialogue handlers        *)
(* (agent.py) and the channel adapter's message handler (bot.py).          *)
(*                                                                         *)
(* Texts that the code inspects character by character (messages, ids,     *)
(* keyword phrases) are tuples of one-character strings.  A message is     *)
(* carried in the state by its literal and looked up in Chars when it is   *)
(* inspected.                                                              *)
(***************************************************************************)
EXTENDS Integers, Sequences, FiniteSets, Bags, TLC

(***************************************************************************)
(* Literals of the source.                                                 *)
(***************************************************************************)

\* The chat messages delivered in the model.
Messages ==
    {"Create a Windows VM named web01 in East US, username admin",
     "I need a storage account",
     "yes",
     "no",
     "Cancel",
     "help",
     "list resources",
     "web01"}

Chars ==
    ("Create a Windows VM named web01 in East US, username admin" :>
        <<"C", "r", "e", "a", "t", "e", " ", "a", " ", "W", "i", "n", "d", "o", "w", "s", " ", "V", "M", " ", "n", "a", "m", "e", "d", " ", "w", "e", "b", "0", "1", " ", "i", "n", " ", "E", "a", "s", "t", " ", "U", "S", ",", " ", "u", "s", "e", "r", "n", "a", "m", "e", " ", "a", "d", "m", "i", "n">>) @@
    ("I need a storage account" :>
        <<"I", " ", "n", "e", "e", "d", " ", "a", " ", "s", "t", "o", "r", "a", "g", "e", " ", "a", "c", "c", "o", "u", "n", "t">>) @@
    ("yes" :>
        <<"y", "e", "s">>) @@
    ("no" :>
        <<"n", "o">>) @@
    ("Cancel" :>
        <<"C", "a", "n", "c", "e", "l">>) @@
    ("help" :>
        <<"h", "e", "l", "p">>) @@
    ("list resources" :>
        <<"l", "i", "s", "t", " ", "r", "e", "s", "o", "u", "r", "c", "e", "s">>) @@
    ("web01" :>
        <<"w", "e", "b", "0", "1">>)

\* The phrases the extractor's input texts are put together from: how the
\* request opens,
RequestPhrases ==
    {<<"C", "r", "e", "a", "t", "e", " ", "a", " ", "W", "i", "n", "d", "o", "w", "s", " ", "V", "M">>,
     <<"C", "r", "e", "a", "t", "e", " ", "a", " ", "V", "M">>,
     <<"D", "e", "p", "l", "o", "y", " ", "a", " ", "w", "e", "b", " ", "a", "p", "p">>,
     <<"I", " ", "n", "e", "e", "d", " ", "a", " ", "s", "t", "o", "r", "a", "g", "e", " ", "a", "c", "c", "o", "u", "n", "t">>,
     <<"S", "e", "t", " ", "u", "p", " ", "a", " ", "S", "Q", "L", " ", "d", "a", "t", "a", "b", "a", "s", "e">>,
     <<"P", "l", "e", "a", "s", "e", " ", "m", "a", "k", "e", " ", "s", "o", "m", "e", "t", "h", "i", "n", "g">>}

\* how it names the resource,
NamePhrases ==
    {<<>>,
     <<" ", "n", "a", "m", "e", "d", " ", "w", "e", "b", "0", "1">>,
     <<" ", "c", "a", "l", "l", "e", "d", " ", "d", "b", "-", "1">>,
     <<" ", "a", "n", "d", " ", "n", "a", "m", "e", " ", "i", "t", " ", "a", "p", "p", "2">>}

\* where it places it,
LocationPhrases ==
    {<<>>,
     <<" ", "i", "n", " ", "E", "a", "s", "t", " ", "U", "S">>,
     <<" ", "i", "n", " ", "w", "e", "s", "t", "e", "u", "r", "o", "p", "e">>}

\* and what else it says.
DetailPhrases ==
    {<<>>,
     <<",", " ", "u", "s", "e", "r", "n", "a", "m", "e", " ", "a", "d", "m", "i", "n">>,
     <<" ", "r", "u", "n", "n", "i", "n", "g", " ", "p", "y", "t", "h", "o", "n">>,
     <<" ", "o", "n", " ", "l", "i", "n", "u", "x", " ", "w", "i", "t", "h", " ", "8", " ", "G", "B", " ", "f", "o", "r", " ", "p", "r", "o", "j", "e", "c", "t", " ", "a", "p", "o", "l", "l", "o">>}

resource_keywords ==
    <<[resource_type |-> "virtual_machine", keywords |->
       <<<<"v", "m">>,
       <<"v", "i", "r", "t", "u", "a", "l", " ", "m", "a", "c", "h", "i", "n", "e">>,
       <<"s", "e", "r", "v", "e", "r">>,
       <<"i", "n", "s", "t", "a", "n", "c", "e">>,
       <<"c", "o", "m", "p", "u", "t", "e">>,
       <<"w", "i", "n", "d", "o", "w", "s", " ", "s", "e", "r", "v", "e", "r">>,
       <<"l", "i", "n", "u", "x", " ", "s", "e", "r", "v", "e", "r">>,
       <<"u", "b", "u", "n", "t", "u">>,
       <<"c", "e", "n", "t", "o", "s">>>>],
      [resource_type |-> "storage_account", keywords |->
       <<<<"s", "t", "o", "r", "a", "g", "e">>,
       <<"s", "t", "o", "r", "a", "g", "e", " ", "a", "c", "c", "o", "u", "n", "t">>,
       <<"b", "l", "o", "b">>,
       <<"f", "i", "l", "e", " ", "s", "t", "o", "r", "a", "g", "e">>,
       <<"q", "u", "e", "u", "e">>,
       <<"t", "a", "b", "l", "e", " ", "s", "t", "o", "r", "a", "g", "e">>,
       <<"d", "a", "t", "a", " ", "s", "t", "o", "r", "a", "g", "e">>>>],
      [resource_type |-> "web_app", keywords |->
       <<<<"w", "e", "b", " ", "a", "p", "p">>,
       <<"a", "p", "p", " ", "s", "e", "r", "v", "i", "c", "e">>,
       <<"w", "e", "b", "s", "i", "t", "e">>,
       <<"w", "e", "b", " ", "a", "p", "p", "l", "i", "c", "a", "t", "i", "o", "n">>,
       <<"n", "o", "d", "e", ".", "j", "s">>,
       <<"p", "y", "t", "h", "o", "n">>,
       <<"d", "o", "t", "n", "e", "t">>,
       <<"j", "a", "v", "a">>,
       <<"p", "h", "p">>,
       <<"r", "u", "b", "y">>>>],
      [resource_type |-> "sql_database", keywords |->
       <<<<"s", "q", "l">>,
       <<"d", "a", "t", "a", "b", "a", "s", "e">>,
       <<"s", "q", "l", " ", "d", "a", "t", "a", "b", "a", "s", "e">>,
       <<"s", "q", "l", " ", "s", "e", "r", "v", "e", "r">>,
       <<"r", "e", "l", "a", "t", "i", "o", "n", "a", "l", " ", "d", "a", "t", "a", "b", "a", "s", "e">>,
       <<"r", "d", "b", "m", "s">>>>],
      [resource_type |-> "cosmos_db", keywords |->
       <<<<"c", "o", "s", "m", "o", "s">>,
       <<"c", "o", "s", "m", "o", "s", " ", "d", "b">>,
       <<"n", "o", "s", "q", "l">>,
       <<"d", "o", "c", "u", "m", "e", "n", "t", " ", "d", "a", "t", "a", "b", "a", "s", "e">>,
       <<"m", "o", "n", "g", "o", "d", "b">>,
       <<"c", "a", "s", "s", "a", "n", "d", "r", "a">>,
       <<"t", "a", "b", "l", "e", " ", "a", "p", "i">>>>],
      [resource_type |-> "virtual_network", keywords |->
       <<<<"v", "n", "e", "t">>,
       <<"v", "i", "r", "t", "u", "a", "l", " ", "n", "e", "t", "w", "o", "r", "k">>,
       <<"n", "e", "t", "w", "o", "r", "k">>,
       <<"s", "u", "b", "n", "e", "t">>,
       <<"n", "e", "t", "w", "o", "r", "k", " ", "s", "e", "c", "u", "r", "i", "t", "y", " ", "g", "r", "o", "u", "p">>,
       <<"n", "s", "g">>>>],
      [resource_type |-> "container_instance", keywords |->
       <<<<"c", "o", "n", "t", "a", "i", "n", "e", "r">>,
       <<"a", "c", "i">>,
       <<"c", "o", "n", "t", "a", "i", "n", "e", "r", " ", "i", "n", "s", "t", "a", "n", "c", "e">>,
       <<"d", "o", "c", "k", "e", "r">>,
       <<"c", "o", "n", "t", "a", "i", "n", "e", "r", "i", "z", "e", "d">>,
       <<"m", "i", "c", "r", "o", "s", "e", "r", "v", "i", "c", "e">>>>],
      [resource_type |-> "aks_cluster", keywords |->
       <<<<"a", "k", "s">>,
       <<"k", "u", "b", "e", "r", "n", "e", "t", "e", "s">>,
       <<"k", "8", "s">>,
       <<"c", "o", "n", "t", "a", "i", "n", "e", "r", " ", "c", "l", "u", "s", "t", "e", "r">>,
       <<"o", "r", "c", "h", "e", "s", "t", "r", "a", "t", "i", "o", "n">>,
       <<"m", "i", "c", "r", "o", "s", "e", "r", "v", "i", "c", "e", "s">>>>]>>

vm_size_patterns ==
    <<[size_category |-> "basic", sizes |->
       <<<<"b", "1", "s">>,
       <<"b", "1", "m", "s">>,
       <<"b", "2", "s">>,
       <<"b", "2", "m", "s">>>>],
      [size_category |-> "standard", sizes |->
       <<<<"d", "2", "s">>,
       <<"d", "4", "s">>,
       <<"d", "8", "s">>,
       <<"d", "1", "6", "s">>>>],
      [size_category |-> "memory_optimized", sizes |->
       <<<<"e", "2", "s">>,
       <<"e", "4", "s">>,
       <<"e", "8", "s">>,
       <<"e", "1", "6", "s">>>>],
      [size_category |-> "compute_optimized", sizes |->
       <<<<"f", "2", "s">>,
       <<"f", "4", "s">>,
       <<"f", "8", "s">>,
       <<"f", "1", "6", "s">>>>]>>

location_patterns ==
    <<[location_name |-> <<"e", "a", "s", "t", "_", "u", "s">>, patterns |->
       <<<<"e", "a", "s", "t", " ", "u", "s">>,
       <<"e", "a", "s", "t", "u", "s">>,
       <<"v", "i", "r", "g", "i", "n", "i", "a">>>>],
      [location_name |-> <<"w", "e", "s", "t", "_", "u", "s">>, patterns |->
       <<<<"w", "e", "s", "t", " ", "u", "s">>,
       <<"w", "e", "s", "t", "u", "s">>,
       <<"c", "a", "l", "i", "f", "o", "r", "n", "i", "a">>>>],
      [location_name |-> <<"c", "e", "n", "t", "r", "a", "l", "_", "u", "s">>, patterns |->
       <<<<"c", "e", "n", "t", "r", "a", "l", " ", "u", "s">>,
       <<"c", "e", "n", "t", "r", "a", "l", "u", "s">>,
       <<"i", "o", "w", "a">>>>],
      [location_name |-> <<"n", "o", "r", "t", "h", "_", "e", "u", "r", "o", "p", "e">>, patterns |->
       <<<<"n", "o", "r", "t", "h", " ", "e", "u", "r", "o", "p", "e">>,
       <<"n", "o", "r", "t", "h", "e", "u", "r", "o", "p", "e">>,
       <<"i", "r", "e", "l", "a", "n", "d">>>>],
      [location_name |-> <<"w", "e", "s", "t", "_", "e", "u", "r", "o", "p", "e">>, patterns |->
       <<<<"w", "e", "s", "t", " ", "e", "u", "r", "o", "p", "e">>,
       <<"w", "e", "s", "t", "e", "u", "r", "o", "p", "e">>,
       <<"n", "e", "t", "h", "e", "r", "l", "a", "n", "d", "s">>>>]>>

UpperToLower ==
    ("A" :> "a") @@ ("B" :> "b") @@ ("C" :> "c") @@ ("D" :> "d") @@ ("E" :> "e") @@ ("F" :> "f") @@ ("G" :> "g") @@ ("H" :> "h") @@ ("I" :> "i") @@ ("J" :> "j") @@ ("K" :> "k") @@ ("L" :> "l") @@ ("M" :> "m") @@ ("N" :> "n") @@ ("O" :> "o") @@ ("P" :> "p") @@ ("Q" :> "q") @@ ("R" :> "r") @@ ("S" :> "s") @@ ("T" :> "t") @@ ("U" :> "u") @@ ("V" :> "v") @@ ("W" :> "w") @@ ("X" :> "x") @@ ("Y" :> "y") @@ ("Z" :> "z")

LowerToUpper ==
    ("a" :> "A") @@ ("b" :> "B") @@ ("c" :> "C") @@ ("d" :> "D") @@ ("e" :> "E") @@ ("f" :> "F") @@ ("g" :> "G") @@ ("h" :> "H") @@ ("i" :> "I") @@ ("j" :> "J") @@ ("k" :> "K") @@ ("l" :> "L") @@ ("m" :> "M") @@ ("n" :> "N") @@ ("o" :> "O") @@ ("p" :> "P") @@ ("q" :> "Q") @@ ("r" :> "R") @@ ("s" :> "S") @@ ("t" :> "T") @@ ("u" :> "U") @@ ("v" :> "V") @@ ("w" :> "W") @@ ("x" :> "X") @@ ("y" :> "Y") @@ ("z" :> "Z")

Letters == DOMAIN UpperToLower \cup DOMAIN LowerToUpper

Digits == {"0", "1", "2", "3", "4", "5", "6", "7", "8", "9"}

DigitValue ==
    ("0" :> 0) @@ ("1" :> 1) @@ ("2" :> 2) @@ ("3" :> 3) @@ ("4" :> 4) @@ ("5" :> 5) @@ ("6" :> 6) @@ ("7" :> 7) @@ ("8" :> 8) @@ ("9" :> 9)

(***************************************************************************)
(* Python string operations used by the source.                            *)
(***************************************************************************)

\* Python None, where an object is optional.
None == [py_none |-> TRUE]

\* The result of a search that matched nothing, where a text is expected;
\* the source tests these results with `not x`, which None and "" both pass.
NoText == <<>>

LowerChar(ch) == IF ch \in DOMAIN UpperToLower THEN UpperToLower[ch] ELSE ch

UpperChar(ch) == IF ch \in DOMAIN LowerToUpper THEN LowerToUpper[ch] ELSE ch

str_lower(s) == [i \in 1..Len(s) |-> LowerChar(s[i])]

str_upper(s) == [i \in 1..Len(s) |-> UpperChar(s[i])]

str_replace_char(s, old, new) == [i \in 1..Len(s) |-> IF s[i] = old THEN new ELSE s[i]]

\* str.title(): the first letter of every run of letters in upper case, the
\* other letters in lower case.
str_title(s) ==
    [i \in 1..Len(s) |->
        IF i = 1 \/ s[i - 1] \notin Letters THEN UpperChar(s[i]) ELSE LowerChar(s[i])]

\* s[i:i+len(p)] == p
StartsAt(s, p, i) ==
    /\ i >= 1
    /\ i + Len(p) - 1 <= Len(s)
    /\ SubSeq(s, i, i + Len(p) - 1) = p

\* p in s
str_in(p, s) == \E i \in 1..(Len(s) - Len(p) + 1) : StartsAt(s, p, i)

\* any(p in s for p in ps)
any_in(ps, s) == \E k \in 1..Len(ps) : str_in(ps[k], s)

\* Character classes of the regular expressions.
IsSpace(ch) == ch \in {" ", "\t", "\n", "\r"}

IsNameChar(ch) == ch \in Letters \cup Digits \cup {"-", "_"}

IsWordChar(ch) == ch \in Letters \cup Digits \cup {"_"}

IsColonOrSpace(ch) == ch = ":" \/ IsSpace(ch)

IsDigit(ch) == ch \in Digits

\* The index after the longest run of characters of class P that starts at i
\* (i itself when s[i] is not of the class): a greedy P* from i.
RunEnd(s, i, P(_)) ==
    CHOOSE j \in i..(Len(s) + 1) :
        /\ \A k \in i..(j - 1) : P(s[k])
        /\ j = Len(s) + 1 \/ ~P(s[j])

Min(S) == CHOOSE x \in S : \A y \in S : x <= y

\* re.search: the match at the leftmost index at which MatchAt finds one.
Search(s, MatchAt(_, _)) ==
    LET hits == {i \in 1..Len(s) : MatchAt(s, i) # NoText}
    IN  IF hits = {} THEN NoText ELSE MatchAt(s, Min(hits))

RECURSIVE int(_)
\* int() of a text of decimal digits
int(ds) ==
    IF ds = <<>> THEN 0
    ELSE 10 * int(SubSeq(ds, 1, Len(ds) - 1)) + DigitValue[ds[Len(ds)]]

(***************************************************************************)
(* The slot extractor (NLPProcessor).                                      *)
(***************************************************************************)

ResourceTypes ==
    {"virtual_machine", "storage_account", "web_app", "sql_database", "cosmos_db",
     "virtual_network", "load_balancer", "container_instance", "aks_cluster",
     "cognitive_service", "machine_learning_workspace"}

\* The result of extract_resource_type when no keyword occurs in the text.
NoResourceType == "None"

name_question == "What would you like to name this resource?"

region_question == "Which Azure region would you prefer?"

vm_type_question == "What type of VM would you like? (Windows or Linux)"

admin_username_question == "What admin username would you like to use?"

runtime_question == "What runtime would you like? (Node.js, Python, .NET, Java, PHP, Ruby)"

resource_type_question ==
    "I couldn't determine what type of resource you want to create. Please specify the resource type."

\* The type of the first table entry, in table order, one of whose keywords
\* occurs in the lower-cased text.
extract_resource_type(text) ==
    LET text_lower == str_lower(text)
        hits == {k \in 1..Len(resource_keywords) :
                    any_in(resource_keywords[k].keywords, text_lower)}
    IN  IF hits = {} THEN NoResourceType
        ELSE resource_keywords[Min(hits)].resource_type

\* The size the loop over vm_size_patterns leaves in parameters["size"]: the
\* inner loop stops at the first size of a category found in the text, the
\* outer loop goes on, so a later category overwrites an earlier one.
vm_size_code(text_lower) ==
    LET cats == {c \in 1..Len(vm_size_patterns) :
                    any_in(vm_size_patterns[c].sizes, text_lower)}
        c    == CHOOSE m \in cats : \A o \in cats : o <= m
        sz   == vm_size_patterns[c].sizes
        k    == Min({j \in 1..Len(sz) : str_in(sz[j], text_lower)})
    IN  IF cats = {} THEN NoText
        ELSE <<"S", "t", "a", "n", "d", "a", "r", "d", "_">> \o str_upper(sz[k])

\* (\d+)\s*(gb|gigabytes?|g) at index i: group 1, or NoText.
RamMatchAt(s, i) ==
    LET d == RunEnd(s, i, IsDigit)
        g == RunEnd(s, d, IsSpace)
    IN  IF d > i /\ g <= Len(s) /\ s[g] = "g" THEN SubSeq(s, i, d - 1) ELSE NoText

\* The ladder with each tier ending one gigabyte early.
ram_size_strict(ram_gb) ==
    IF ram_gb < 1 THEN <<"S", "t", "a", "n", "d", "a", "r", "d", "_", "B", "1", "s">>
    ELSE IF ram_gb < 2 THEN <<"S", "t", "a", "n", "d", "a", "r", "d", "_", "B", "2", "s">>
    ELSE IF ram_gb < 4
        THEN <<"S", "t", "a", "n", "d", "a", "r", "d", "_", "D", "2", "s", "_", "v", "3">>
    ELSE IF ram_gb < 8
        THEN <<"S", "t", "a", "n", "d", "a", "r", "d", "_", "D", "4", "s", "_", "v", "3">>
    ELSE IF ram_gb < 16
        THEN <<"S", "t", "a", "n", "d", "a", "r", "d", "_", "D", "8", "s", "_", "v", "3">>
    ELSE <<"S", "t", "a", "n", "d", "a", "r", "d", "_", "D", "1", "6", "s", "_", "v", "3">>

ram_size(ram_gb) ==
    IF ram_gb <= 1 THEN <<"S", "t", "a", "n", "d", "a", "r", "d", "_", "B", "1", "s">>
    ELSE IF ram_gb <= 2 THEN <<"S", "t", "a", "n", "d", "a", "r", "d", "_", "B", "2", "s">>
    ELSE IF ram_gb <= 4
        THEN <<"S", "t", "a", "n", "d", "a", "r", "d", "_", "D", "2", "s", "_", "v", "3">>
    ELSE IF ram_gb <= 8
        THEN <<"S", "t", "a", "n", "d", "a", "r", "d", "_", "D", "4", "s", "_", "v", "3">>
    ELSE IF ram_gb <= 16
        THEN <<"S", "t", "a", "n", "d", "a", "r", "d", "_", "D", "8", "s", "_", "v", "3">>
    ELSE <<"S", "t", "a", "n", "d", "a", "r", "d", "_", "D", "1", "6", "s", "_", "v", "3">>

\* keyword[:\s]+(class+) at index i: group 1, or NoText.
KeyValueMatchAt(s, i, keyword, ValueChar(_)) ==
    LET a == i + Len(keyword)
        b == RunEnd(s, a, IsColonOrSpace)
        e == RunEnd(s, b, ValueChar)
    IN  IF StartsAt(s, keyword, i) /\ b > a /\ e > b THEN SubSeq(s, b, e - 1) ELSE NoText

UsernameMatchAt(s, i) ==
    KeyValueMatchAt(s, i, <<"u", "s", "e", "r", "n", "a", "m", "e">>, IsWordChar)

ProjectMatchAt(s, i) ==
    KeyValueMatchAt(s, i, <<"p", "r", "o", "j", "e", "c", "t">>, IsNameChar)

\* A Python dict as a function; d1 | d2 with d2's entries winning.
EmptyDict == <<>>

DictSet(d, k, v) == [x \in DOMAIN d \cup {k} |-> IF x = k THEN v ELSE d[x]]

DictIf(cond, d, k, v) == IF cond THEN DictSet(d, k, v) ELSE d

\* The parameters dict extract_vm_parameters builds from what it found:
\* the explicit size code is written first and the size of a RAM phrase over it.
vm_parameters(windows, linux, code, ram, username) ==
    LET vm_type == IF windows THEN DictSet(EmptyDict, "vm_type", "windows")
                   ELSE DictIf(linux, EmptyDict, "vm_type", "linux")
        size == IF ram # NoText THEN DictSet(vm_type, "size", ram_size(int(ram)))
                ELSE DictIf(code # NoText, vm_type, "size", code)
    IN  DictIf(username # NoText, size, "admin_username", username)

extract_vm_parameters(text) ==
    vm_parameters(
        any_in(<<<<"w", "i", "n", "d", "o", "w", "s">>, <<"w", "i", "n">>>>, str_lower(text)),
        any_in(<<<<"l", "i", "n", "u", "x">>, <<"u", "b", "u", "n", "t", "u">>,
                 <<"c", "e", "n", "t", "o", "s">>, <<"d", "e", "b", "i", "a", "n">>>>,
               str_lower(text)),
        vm_size_code(str_lower(text)),
        Search(str_lower(text), RamMatchAt),
        Search(str_lower(text), UsernameMatchAt))

\* The extractor writing a key only when its keyword occurs in the text.
extract_storage_parameters_keywords_only(text) ==
    LET text_lower == str_lower(text)
        account_type ==
            IF str_in(<<"p", "r", "e", "m", "i", "u", "m">>, text_lower)
                THEN DictSet(EmptyDict, "account_type", "Premium_LRS")
            ELSE DictIf(str_in(<<"g", "e", "o">>, text_lower) \/ str_in(<<"r", "e", "d", "u", "n", "d", "a", "n", "t">>, text_lower),
                        EmptyDict, "account_type", "Standard_GRS")
    IN  DictIf(str_in(<<"c", "o", "o", "l">>, text_lower), account_type, "access_tier", "Cool")

extract_storage_parameters(text) ==
    LET text_lower == str_lower(text)
        account_type ==
            IF str_in(<<"p", "r", "e", "m", "i", "u", "m">>, text_lower) THEN "Premium_LRS"
            ELSE IF \/ str_in(<<"g", "e", "o">>, text_lower)
                    \/ str_in(<<"r", "e", "d", "u", "n", "d", "a", "n", "t">>, text_lower)
                 THEN "Standard_GRS"
            ELSE "Standard_LRS"
        access_tier == IF str_in(<<"c", "o", "o", "l">>, text_lower) THEN "Cool" ELSE "Hot"
    IN  DictSet(DictSet(EmptyDict, "account_type", account_type), "access_tier", access_tier)

extract_webapp_parameters(text) ==
    LET text_lower == str_lower(text)
        has(p) == str_in(p, text_lower)
        runtime ==
            IF has(<<"n", "o", "d", "e">>) \/ has(<<"j", "a", "v", "a", "s", "c", "r", "i", "p", "t">>)
                THEN "node"
            ELSE IF has(<<"p", "y", "t", "h", "o", "n">>) THEN "python"
            ELSE IF has(<<"d", "o", "t", "n", "e", "t">>) \/ has(<<"c", "#">>)
                    \/ has(<<".", "n", "e", "t">>)
                THEN "dotnet"
            ELSE IF has(<<"j", "a", "v", "a">>) THEN "java"
            ELSE IF has(<<"p", "h", "p">>) THEN "php"
            ELSE IF has(<<"r", "u", "b", "y">>) THEN "ruby"
            ELSE "None"
        plan_sku ==
            IF has(<<"b", "a", "s", "i", "c">>) THEN "B1"
            ELSE IF has(<<"s", "t", "a", "n", "d", "a", "r", "d">>) THEN "S1"
            ELSE IF has(<<"p", "r", "e", "m", "i", "u", "m">>) THEN "P1v2"
            ELSE "F1"
    IN  DictSet(DictIf(runtime # "None", EmptyDict, "runtime", runtime), "plan_sku", plan_sku)

\* The display form of the first region, in table order, one of whose
\* aliases occurs in the lower-cased text.
extract_location(text) ==
    LET text_lower == str_lower(text)
        hits == {k \in 1..Len(location_patterns) :
                    any_in(location_patterns[k].patterns, text_lower)}
    IN  IF hits = {} THEN NoText
        ELSE str_title(str_replace_char(location_patterns[Min(hits)].location_name, "_", " "))

\* word\s+(?:it\s+)?([a-zA-Z0-9\-_]+) at index i, ignoring case: group 1, or
\* NoText.  with_it is FALSE for the patterns without the optional group.
NameMatchAt(s, i, word, with_it) ==
    LET ls == str_lower(s)
        a  == i + Len(word)
        b  == RunEnd(s, a, IsSpace)
        c  == b + 2
        d  == RunEnd(s, c, IsSpace)
        after_it == IF with_it /\ StartsAt(ls, <<"i", "t">>, b) /\ d > c
                        /\ RunEnd(s, d, IsNameChar) > d
                    THEN SubSeq(s, d, RunEnd(s, d, IsNameChar) - 1)
                    ELSE NoText
        e  == RunEnd(s, b, IsNameChar)
    IN  IF ~StartsAt(ls, word, i) \/ b = a THEN NoText
        ELSE IF after_it # NoText THEN after_it
        ELSE IF e > b THEN SubSeq(s, b, e - 1)
        ELSE NoText

NameAt(s, i) == NameMatchAt(s, i, <<"n", "a", "m", "e">>, TRUE)

CallAt(s, i) == NameMatchAt(s, i, <<"c", "a", "l", "l">>, TRUE)

NamedAt(s, i) == NameMatchAt(s, i, <<"n", "a", "m", "e", "d">>, FALSE)

CalledAt(s, i) == NameMatchAt(s, i, <<"c", "a", "l", "l", "e", "d">>, FALSE)

FirstMatch(m1, m2, m3, m4) ==
    IF m1 # NoText THEN m1 ELSE IF m2 # NoText THEN m2 ELSE IF m3 # NoText THEN m3 ELSE m4

\* The first of the four patterns, in list order, that matches anywhere.
extract_name(text) ==
    FirstMatch(Search(text, NameAt), Search(text, CallAt), Search(text, NamedAt),
               Search(text, CalledAt))

extract_tags(text) ==
    LET text_lower == str_lower(text)
        has(p) == str_in(p, text_lower)
        t1 == IF has(<<"p", "r", "o", "d", "u", "c", "t", "i", "o", "n">>)
                  THEN DictSet(EmptyDict, "environment", "production")
              ELSE IF has(<<"d", "e", "v", "e", "l", "o", "p", "m", "e", "n", "t">>)
                      \/ has(<<"d", "e", "v">>)
                  THEN DictSet(EmptyDict, "environment", "development")
              ELSE IF has(<<"t", "e", "s", "t">>) \/ has(<<"t", "e", "s", "t", "i", "n", "g">>)
                  THEN DictSet(EmptyDict, "environment", "testing")
              ELSE EmptyDict
        project == Search(text_lower, ProjectMatchAt)
    IN  DictIf(has(<<"p", "r", "o", "j", "e", "c", "t">>) /\ project # NoText,
               t1, "project", project)

\* ResourceRequest(...): the fields the dialogue reads.  request_id is not
\* passed by any caller and keeps its default.
ResourceRequest(resource_type, name, location, parameters, tags, user_id) ==
    [resource_type |-> resource_type, name |-> name, location |-> location,
     parameters |-> parameters, tags |-> tags, user_id |-> user_id,
     request_id |-> None]

\* pydantic's validation of the constructor arguments: resource_type is a
\* required ResourceType and name a required str.
RequestIsValid(resource_type, name) == resource_type \in ResourceTypes /\ name # NoText

\* The questions with those of the type-specific slots appended before the
\* question for the region.
missing_questions_region_last(resource_type, name, location, vm_params, webapp_params) ==
    (IF name = NoText THEN <<name_question>> ELSE <<>>)
    \o (IF resource_type = "virtual_machine" /\ "vm_type" \notin DOMAIN vm_params
            THEN <<vm_type_question>> ELSE <<>>)
    \o (IF resource_type = "virtual_machine" /\ "admin_username" \notin DOMAIN vm_params
            THEN <<admin_username_question>> ELSE <<>>)
    \o (IF resource_type = "web_app" /\ "runtime" \notin DOMAIN webapp_params
            THEN <<runtime_question>> ELSE <<>>)
    \o (IF location = NoText THEN <<region_question>> ELSE <<>>)

\* The questions parse_request appends for the slots it did not find, in
\* the order it appends them.
missing_questions(resource_type, name, location, vm_params, webapp_params) ==
    (IF name = NoText THEN <<name_question>> ELSE <<>>)
    \o (IF location = NoText THEN <<region_question>> ELSE <<>>)
    \o (IF resource_type = "virtual_machine" /\ "vm_type" \notin DOMAIN vm_params
            THEN <<vm_type_question>> ELSE <<>>)
    \o (IF resource_type = "virtual_machine" /\ "admin_username" \notin DOMAIN vm_params
            THEN <<admin_username_question>> ELSE <<>>)
    \o (IF resource_type = "web_app" /\ "runtime" \notin DOMAIN webapp_params
            THEN <<runtime_question>> ELSE <<>>)

\* parse_request going on to the other slots when it has found no resource
\* type, and asking for them as well.
parse_result_asking_on(resource_type, name, location, parameters, tags, missing_params, user_id) ==
    IF resource_type = NoResourceType
        THEN <<None, <<resource_type_question>> \o missing_params>>
    ELSE IF missing_params = <<>>
        THEN <<ResourceRequest(resource_type, name, location, parameters, tags, user_id), <<>>>>
    ELSE <<None, missing_params>>

\* What parse_request returns once the extractors have run.
parse_result(resource_type, name, location, parameters, tags, missing_params, user_id) ==
    IF resource_type = NoResourceType THEN <<None, <<resource_type_question>>>>
    ELSE IF missing_params = <<>>
        THEN <<ResourceRequest(resource_type, name, location, parameters, tags, user_id), <<>>>>
    ELSE <<None, missing_params>>

\* The parameters with the VM extractor's run for every resource type.
type_parameters_of_vm(resource_type, vm_params, storage_params, webapp_params) ==
    vm_params

\* The parameters of the branch of the detected resource type.
type_parameters(resource_type, vm_params, storage_params, webapp_params) ==
    IF resource_type = "virtual_machine" THEN vm_params
    ELSE IF resource_type = "storage_account" THEN storage_params
    ELSE IF resource_type = "web_app" THEN webapp_params
    ELSE EmptyDict

slots_result(resource_type, name, location, vm_params, storage_params, webapp_params, tags, user_id) ==
    parse_result(resource_type, name, location,
                 type_parameters(resource_type, vm_params, storage_params, webapp_params),
                 tags,
                 missing_questions(resource_type, name, location, vm_params, webapp_params),
                 user_id)

\* parse_request: <<request or None, missing questions>>.
parse_request(text, user_id) ==
    slots_result(extract_resource_type(text), extract_name(text), extract_location(text),
                 extract_vm_parameters(text), extract_storage_parameters(text),
                 extract_webapp_parameters(text), extract_tags(text), user_id)

(***************************************************************************)
(* Configuration (config.py) and the fixed replies (agent.py).             *)
(***************************************************************************)

\* AzureConfig.default_location
default_location == <<"E", "a", "s", "t", " ", "U", "S">>

\* The default of _cleanup_old_contexts' max_age_hours, the only value
\* process_message ever passes.
default_max_age_hours == 24

unnamed_resource ==
    <<"u", "n", "n", "a", "m", "e", "d", "-", "r", "e", "s", "o", "u", "r", "c", "e">>

\* BotMessage(text, suggested_actions).  A text is a tuple: its fixed
\* wording first, then the values interpolated into it.
BotMessage(text, suggested_actions) == [text |-> text, suggested_actions |-> suggested_actions]

permission_denied_message ==
    BotMessage(<<"Sorry, you don't have permission to provision Azure resources. Please contact your administrator.">>, None)

operation_cancelled_message == BotMessage(<<"Operation cancelled. How can I help you?">>, None)

processing_error_message ==
    BotMessage(<<"Sorry, I encountered an error while processing your request. Please try again.">>, None)

not_sure_message ==
    BotMessage(<<"I'm not sure what you're referring to. Could you please clarify?">>, None)

parameter_trouble_message ==
    BotMessage(<<"I'm having trouble understanding the parameters. Please try again with a complete request.">>, None)

no_pending_request_message ==
    BotMessage(<<"No pending request to confirm. Please start a new request.">>, None)

request_cancelled_message == BotMessage(<<"Request cancelled. How can I help you?">>, None)

provisioning_error_message ==
    BotMessage(<<"Sorry, I encountered an error while creating your resource. Please try again.">>, None)

help_message == BotMessage(<<"Azure Resource Provisioning Agent">>, None)

no_resources_message == BotMessage(<<"No resources found in the default resource group.">>, None)

resources_message == BotMessage(<<"Here are your resources:">>, None)

\* generate_response(request, status): the sentence of the phase with the
\* request's type, name and location interpolated.
generate_response(request, status) ==
    <<status, request.resource_type, request.name, request.location>>

\* The two suggested actions of the confirmation prompt, by their values.
confirmation_actions == <<"yes", "no">>

(***************************************************************************)
(* The state.                                                              *)
(***************************************************************************)

\* The (user, conversation) pairs the channel delivers activities for.
\* Teams ids contain colons ("29:1abc...", "19:...@thread.v2"), so ids with
\* and without one are delivered.
Conversations ==
    {[user_id |-> <<"a">>, conversation_id |-> <<"c">>],
     [user_id |-> <<"a", ":", "b">>, conversation_id |-> <<"c">>],
     [user_id |-> <<"a">>, conversation_id |-> <<"b", ":", "c">>]}

\* config.security as loaded from the environment: open to all, or
\* restricted to one user who is also an admin.
SecurityConfigs ==
    {[allowed_users |-> {}, admin_users |-> {}],
     [allowed_users |-> {<<"a">>}, admin_users |-> {<<"a">>}]}

\* The results of the backend the Azure client talks to.
BackendResults == {"ok", "error"}

\* The number of steps of a behaviour: activities delivered and advances
\* of the clock.
MaxSteps == 3

VARIABLES
    conversation_contexts,  \* agent.conversation_contexts: context_key -> context
    security,               \* config.security
    max_age_hours,          \* the TTL _cleanup_old_contexts is run with
    now,                    \* datetime.utcnow(), in hours
    provision_calls,        \* the requests passed to azure_client.provision_resource
    reply,                  \* the BotMessage of the last activity handled
    last,                   \* the last activity handled and what its handling did
    steps,                  \* the number of steps taken
    nlp_text,               \* the text handed to NLPProcessor.parse_request on its own
    nlp_result,             \* what parse_request has returned for it
    inbox,                  \* the activities delivered whose handlers have not started
    in_call,                \* the handlers inside azure_client.provision_resource
    serial,                 \* the activities handled so far, handled one after the other
    azure_result,           \* what a call of the Azure client on its own has returned
    permitted               \* what _check_user_permissions on its own has returned

\* The state of the event loop that runs the handlers as tasks.
loop_vars == <<inbox, in_call, serial>>

vars ==
    <<conversation_contexts, security, max_age_hours, now, provision_calls, reply, last,
      steps, nlp_text, nlp_result, inbox, in_call, serial, azure_result,
      permitted>>

(***************************************************************************)
(* The conversation store and the permission gate (AzureProvisioningAgent).*)
(***************************************************************************)

\* f"{user_id}:{conversation_id}"
context_key(user_id, conversation_id) == user_id \o <<":">> \o conversation_id

ConversationContext(user_id, conversation_id, utcnow) ==
    [user_id |-> user_id, conversation_id |-> conversation_id,
     current_request |-> None, pending_questions |-> <<>>,
     collected_parameters |-> EmptyDict,
     created_at |-> utcnow, last_activity |-> utcnow]

\* _get_conversation_context without the test for the key: a new context
\* is stored on every call.
_get_conversation_context_recreating(contexts, user_id, conversation_id, utcnow) ==
    DictSet(contexts, context_key(user_id, conversation_id),
            ConversationContext(user_id, conversation_id, utcnow))

\* The store after _get_conversation_context(user_id, conversation_id); the
\* context returned is the one under context_key(user_id, conversation_id).
_get_conversation_context(contexts, user_id, conversation_id, utcnow) ==
    LET key == context_key(user_id, conversation_id)
        had == IF key \in DOMAIN contexts THEN contexts
               ELSE DictSet(contexts, key, ConversationContext(user_id, conversation_id, utcnow))
    IN  [had EXCEPT ![key].last_activity = utcnow]

\* datetime.utcnow().replace(hour=datetime.utcnow().hour - max_age_hours)
\* raises ValueError unless the new hour is in 0..23.
cutoff_raises(utcnow, age_hours) == (utcnow % 24) - age_hours \notin 0..23

\* The cutoff when it can be computed: the same day at the new hour.
cutoff_time(utcnow, age_hours) == (utcnow - (utcnow % 24)) + ((utcnow % 24) - age_hours)

\* The store after _cleanup_old_contexts, when the cutoff can be computed.
_cleanup_old_contexts(contexts, utcnow, age_hours) ==
    LET keys_to_remove ==
            {key \in DOMAIN contexts :
                contexts[key].last_activity < cutoff_time(utcnow, age_hours)}
    IN  [key \in DOMAIN contexts \ keys_to_remove |-> contexts[key]]

_check_user_permissions(config_security, user_id) ==
    IF config_security.allowed_users # {} /\ user_id \notin config_security.allowed_users
        THEN FALSE
    ELSE IF user_id \in config_security.admin_users THEN TRUE
    ELSE Cardinality(config_security.allowed_users) = 0

(***************************************************************************)
(* The dialogue handlers (AzureProvisioningAgent).  A handler that mutates *)
(* a context and returns a BotMessage is an operator from the store to     *)
(* [contexts |-> the store afterwards, reply |-> the BotMessage].          *)
(***************************************************************************)

Handled(contexts, bot_message) == [contexts |-> contexts, reply |-> bot_message]

\* current_request = None; pending_questions = []; collected_parameters = {}
cleared(context) ==
    [context EXCEPT !.current_request = None, !.pending_questions = <<>>,
                    !.collected_parameters = EmptyDict]

cancel_words == {<<"c", "a", "n", "c", "e", "l">>, <<"s", "t", "o", "p">>, <<"a", "b", "o", "r", "t">>}

help_words ==
    {<<"h", "e", "l", "p">>,
     <<"w", "h", "a", "t", " ", "c", "a", "n", " ", "y", "o", "u", " ", "d", "o">>,
     <<"?">>}

listing_words ==
    <<<<"l", "i", "s", "t">>, <<"s", "h", "o", "w">>, <<"w", "h", "a", "t">>,
      <<"r", "e", "s", "o", "u", "r", "c", "e", "s">>>>

confirmation_words == {<<"y", "e", "s">>, <<"n", "o">>}

_handle_complete_request(contexts, key, request) ==
    Handled([contexts EXCEPT ![key].current_request = request],
            BotMessage(generate_response(request, "confirm"), confirmation_actions))

\* A resource of the default resource group, as list_resources reports it.
listed_resource == [name |-> "web01", type |-> "Microsoft.Compute/virtualMachines"]

\* AzureClient.list_resources: the resources of the default resource
\* group, [] when the read of the backend raises.
list_resources(backend) == IF backend = "ok" THEN <<listed_resource>> ELSE <<>>

\* _handle_list_resources: the listing, or the reply for no resources.
_handle_list_resources(contexts, backend) ==
    Handled(contexts,
            IF list_resources(backend) = <<>> THEN no_resources_message
            ELSE resources_message)

\* _handle_parameter_collection with pending_questions.pop() for pop(0): the
\* answer is stored under the front question and the last one is removed.
_handle_parameter_collection_pop_last(contexts, key, message) ==
    LET context == contexts[key]
        current_question == context.pending_questions[1]
        answered ==
            [context EXCEPT
                !.collected_parameters = DictSet(@, current_question, message),
                !.pending_questions = SubSeq(@, 1, Len(@) - 1)]
        stored == [contexts EXCEPT ![key] = answered]
        resource_type ==
            IF answered.current_request # None THEN answered.current_request.resource_type
            ELSE NoResourceType
        name ==
            IF "name" \in DOMAIN answered.collected_parameters
                THEN Chars[answered.collected_parameters["name"]]
            ELSE unnamed_resource
        location ==
            IF "location" \in DOMAIN answered.collected_parameters
                THEN Chars[answered.collected_parameters["location"]]
            ELSE default_location
    IN  IF context.pending_questions = <<>> THEN Handled(contexts, not_sure_message)
        ELSE IF answered.pending_questions # <<>>
            THEN Handled(stored, BotMessage(<<answered.pending_questions[1]>>, None))
        ELSE IF ~RequestIsValid(resource_type, name)
            THEN Handled(stored, parameter_trouble_message)
        ELSE _handle_complete_request(
                 stored, key,
                 ResourceRequest(resource_type, name, location, EmptyDict, None,
                                 context.user_id))

\* _handle_parameter_collection without the pop: the answer is stored and the
\* question stays at the front.
_handle_parameter_collection_no_pop(contexts, key, message) ==
    LET context == contexts[key]
        current_question == context.pending_questions[1]
        answered ==
            [context EXCEPT
                !.collected_parameters = DictSet(@, current_question, message),
                !.pending_questions = @]
        stored == [contexts EXCEPT ![key] = answered]
        resource_type ==
            IF answered.current_request # None THEN answered.current_request.resource_type
            ELSE NoResourceType
        name ==
            IF "name" \in DOMAIN answered.collected_parameters
                THEN Chars[answered.collected_parameters["name"]]
            ELSE unnamed_resource
        location ==
            IF "location" \in DOMAIN answered.collected_parameters
                THEN Chars[answered.collected_parameters["location"]]
            ELSE default_location
    IN  IF context.pending_questions = <<>> THEN Handled(contexts, not_sure_message)
        ELSE IF answered.pending_questions # <<>>
            THEN Handled(stored, BotMessage(<<answered.pending_questions[1]>>, None))
        ELSE IF ~RequestIsValid(resource_type, name)
            THEN Handled(stored, parameter_trouble_message)
        ELSE _handle_complete_request(
                 stored, key,
                 ResourceRequest(resource_type, name, location, EmptyDict, None,
                                 context.user_id))

_handle_parameter_collection(contexts, key, message) ==
    LET context == contexts[key]
        current_question == context.pending_questions[1]
        answered ==
            [context EXCEPT
                !.collected_parameters = DictSet(@, current_question, message),
                !.pending_questions = Tail(@)]
        stored == [contexts EXCEPT ![key] = answered]
        resource_type ==
            IF answered.current_request # None THEN answered.current_request.resource_type
            ELSE NoResourceType
        name ==
            IF "name" \in DOMAIN answered.collected_parameters
                THEN Chars[answered.collected_parameters["name"]]
            ELSE unnamed_resource
        location ==
            IF "location" \in DOMAIN answered.collected_parameters
                THEN Chars[answered.collected_parameters["location"]]
            ELSE default_location
    IN  IF context.pending_questions = <<>> THEN Handled(contexts, not_sure_message)
        ELSE IF answered.pending_questions # <<>>
            THEN Handled(stored, BotMessage(<<answered.pending_questions[1]>>, None))
        ELSE IF ~RequestIsValid(resource_type, name)
            THEN Handled(stored, parameter_trouble_message)
        ELSE _handle_complete_request(
                 stored, key,
                 ResourceRequest(resource_type, name, location, EmptyDict, None,
                                 context.user_id))

\* The extractor's result for each message, with the user id left out.
Parsed == [m \in Messages |-> parse_request(Chars[m], None)]

Lowered == [m \in Messages |-> str_lower(Chars[m])]

\* process_message with the pending questions looked at before the help
\* and listing words.
dispatch_message_answers_first(contexts, user_id, conversation_id, message, parsed, backend) ==
    LET key == context_key(user_id, conversation_id) IN
    IF Lowered[message] \in cancel_words
        THEN Handled([contexts EXCEPT ![key] = cleared(@)], operation_cancelled_message)
    ELSE IF contexts[key].pending_questions # <<>>
        THEN _handle_parameter_collection(contexts, key, message)
    ELSE IF Lowered[message] \in help_words THEN Handled(contexts, help_message)
    ELSE IF any_in(listing_words, Lowered[message])
        THEN _handle_list_resources(contexts, backend)
    ELSE IF parsed[1] # None
        THEN _handle_complete_request(contexts, key, [parsed[1] EXCEPT !.user_id = user_id])
    ELSE Handled([contexts EXCEPT ![key].pending_questions = parsed[2]],
                 BotMessage(<<"I need some more information to create your resource:">>
                            \o parsed[2], None))

\* The body of process_message after the cleanup and the permission check;
\* parsed is the extractor's result for the message.
dispatch_message(contexts, user_id, conversation_id, message, parsed, backend) ==
    LET key == context_key(user_id, conversation_id) IN
    IF Lowered[message] \in cancel_words
        THEN Handled([contexts EXCEPT ![key] = cleared(@)], operation_cancelled_message)
    ELSE IF Lowered[message] \in help_words THEN Handled(contexts, help_message)
    ELSE IF any_in(listing_words, Lowered[message])
        THEN _handle_list_resources(contexts, backend)
    ELSE IF contexts[key].pending_questions # <<>>
        THEN _handle_parameter_collection(contexts, key, message)
    ELSE IF parsed[1] # None
        THEN _handle_complete_request(contexts, key, [parsed[1] EXCEPT !.user_id = user_id])
    ELSE Handled([contexts EXCEPT ![key].pending_questions = parsed[2]],
                 BotMessage(<<"I need some more information to create your resource:">>
                            \o parsed[2], None))

process_message(contexts, config_security, utcnow, age_hours, user_id, conversation_id, message, backend) ==
    IF cutoff_raises(utcnow, age_hours) THEN Handled(contexts, processing_error_message)
    ELSE IF ~_check_user_permissions(config_security, user_id)
        THEN Handled(_cleanup_old_contexts(contexts, utcnow, age_hours),
                     permission_denied_message)
    ELSE dispatch_message(
             _get_conversation_context(_cleanup_old_contexts(contexts, utcnow, age_hours),
                                       user_id, conversation_id, utcnow),
             user_id, conversation_id, message, Parsed[message], backend)

\* The resource types provision_resource has a branch for.
provisioned_types == {"virtual_machine", "storage_account", "web_app"}

\* provision_resource with the SDK calls of its branches outside any try:
\* an error of the backend reaches the caller.
provision_resource_unguarded(request, backend) ==
    IF request.resource_type \in provisioned_types
        THEN IF backend = "ok" THEN "completed" ELSE "raised"
    ELSE "failed"

\* AzureClient.provision_resource: the status of the response.  Only three
\* resource types have a provisioning branch; each branch makes its SDK
\* calls inside a try whose except returns a response with status FAILED.
provision_resource(request, backend) ==
    IF request.resource_type \in provisioned_types
        THEN IF backend = "ok" THEN "completed" ELSE "failed"
    ELSE "failed"

\* The early return with the context reset as the other returns reset it.
no_pending_request_clearing(contexts, key, calls) ==
    [contexts |-> [contexts EXCEPT ![key] = cleared(@)],
     reply |-> no_pending_request_message, calls |-> calls, outcome |-> "no call"]

\* confirm_and_provision with no current_request: the early return.
no_pending_request(contexts, key, calls) ==
    [contexts |-> contexts, reply |-> no_pending_request_message,
     calls |-> calls, outcome |-> "no call"]

\* A call that raises to its caller instead of returning a BotMessage.
Raised == [py_exception |-> TRUE]

\* The collaborator call without the except branch around it: the fault
\* reaches the caller of confirm_and_provision.
provisioning_fault_propagating(got, calls, request) ==
    [contexts |-> got, reply |-> Raised,
     calls |-> Append(calls, request), outcome |-> "raised"]

\* The except branch of confirm_and_provision: the collaborator call has
\* raised, the context is as _get_conversation_context left it.
provisioning_fault(got, calls, request) ==
    [contexts |-> got, reply |-> provisioning_error_message,
     calls |-> Append(calls, request), outcome |-> "raised"]

\* confirm_and_provision.  backend is the result of the backend the
\* collaborator talks to, fault whether an exception escapes the collaborator
\* call; calls is the log of the requests passed to provision_resource.
confirm_and_provision(contexts, calls, utcnow, user_id, conversation_id, confirm, backend, fault) ==
    LET key == context_key(user_id, conversation_id)
        got == _get_conversation_context(contexts, user_id, conversation_id, utcnow)
        context == got[key]
        request == context.current_request
        done == [got EXCEPT ![key] = cleared(context)]
        status == provision_resource(request, backend)
    IN  IF request = None THEN no_pending_request(got, key, calls)
        ELSE IF ~confirm
            THEN [contexts |-> done, reply |-> request_cancelled_message,
                  calls |-> calls, outcome |-> "no call"]
        ELSE IF fault THEN provisioning_fault(got, calls, request)
        ELSE IF status = "completed"
            THEN [contexts |-> done,
                  reply |-> BotMessage(generate_response(request, "completed"), None),
                  calls |-> Append(calls, request), outcome |-> status]
        ELSE [contexts |-> done,
              reply |-> BotMessage(<<"Failed to create resource:", status>>, None),
              calls |-> Append(calls, request), outcome |-> status]

(***************************************************************************)
(* The channel adapter (AzureProvisioningBot) and the clock.               *)
(***************************************************************************)

\* The fields of the context under key that the dialogue state consists
\* of; a context that is not in the store has those of a new one.
Fields(contexts, key) ==
    IF key \in DOMAIN contexts
        THEN [current_request |-> contexts[key].current_request,
              pending_questions |-> contexts[key].pending_questions,
              collected_parameters |-> contexts[key].collected_parameters]
    ELSE [current_request |-> None, pending_questions |-> <<>>,
          collected_parameters |-> EmptyDict]

\* The message on_message_activity sends from its own except branch, when
\* a call of its try block has raised.
adapter_error_message ==
    BotMessage(<<"Sorry, I encountered an error. Please try again.">>, None)

\* What on_message_activity does after process_message has returned
\* processed: for "yes" and "no" it calls confirm_and_provision, whose
\* response replaces the first; the response is what it sends, its own
\* error message when a call has raised.
handle_confirmation(user_id, conversation_id, message_text, processed, backend, fault) ==
    LET key == context_key(user_id, conversation_id)
        is_confirmation == Lowered[message_text] \in confirmation_words
        confirm == Lowered[message_text] = <<"y", "e", "s">>
        confirmed ==
            confirm_and_provision(processed.contexts, provision_calls, now,
                                  user_id, conversation_id, confirm, backend, fault)
        response == IF is_confirmation THEN confirmed.reply ELSE processed.reply
    IN  /\ conversation_contexts' =
               IF is_confirmation THEN confirmed.contexts ELSE processed.contexts
        /\ reply' = IF response = Raised THEN adapter_error_message ELSE response
        /\ provision_calls' = IF is_confirmation THEN confirmed.calls ELSE provision_calls
        /\ last' = [user_id |-> user_id, conversation_id |-> conversation_id,
                    text |-> message_text,
                    before |-> Fields(conversation_contexts, key),
                    processed |-> Fields(processed.contexts, key),
                    outcome |-> IF is_confirmation THEN confirmed.outcome ELSE "no call"]

\* on_message_activity up to the sending of the response.  Neither
\* process_message nor confirm_and_provision suspends, so the handling of an
\* activity is one step.
on_message_activity(user_id, conversation_id, message_text, backend, fault) ==
    /\ steps < MaxSteps
    /\ steps' = steps + 1
    /\ handle_confirmation(
           user_id, conversation_id, message_text,
           process_message(conversation_contexts, security, now, max_age_hours,
                           user_id, conversation_id, message_text, backend),
           backend, fault)
    /\ UNCHANGED <<security, max_age_hours, now, nlp_text, nlp_result>>
    /\ UNCHANGED loop_vars
    /\ UNCHANGED <<azure_result, permitted>>

\* Time passes between activities.
Tick(hours) ==
    /\ steps < MaxSteps
    /\ steps' = steps + 1
    /\ now' = now + hours
    /\ UNCHANGED <<conversation_contexts, security, max_age_hours, provision_calls, reply,
                   last, nlp_text, nlp_result>>
    /\ UNCHANGED loop_vars
    /\ UNCHANGED <<azure_result, permitted>>

\* No activity has been handled yet.
NoActivity ==
    [user_id |-> NoText, conversation_id |-> NoText, text |-> "",
     before |-> Fields(<<>>, NoText), processed |-> Fields(<<>>, NoText),
     outcome |-> "no call"]

\* parse_request has not been called on its own.
NotParsed == <<>>

\* No activity has been handled: the store and the log of provisioning
\* calls are empty, and no two activities of one context have been waiting
\* at once.
NothingHandled == [contexts |-> <<>>, calls |-> <<>>, concurrent |-> FALSE]

\* _check_user_permissions has not been called on its own.
NotChecked == [checked |-> FALSE]

\* The Azure client has not been called on its own.
NotCalled == [call |-> "none"]

\* The agent and the adapter after construction.
Constructed(age_hours) ==
    /\ conversation_contexts = <<>>
    /\ security \in SecurityConfigs
    /\ max_age_hours \in age_hours
    /\ now = 1
    /\ provision_calls = <<>>
    /\ reply = None
    /\ last = NoActivity
    /\ steps = 0
    /\ inbox = EmptyBag
    /\ in_call = <<>>
    /\ serial = NothingHandled
    /\ azure_result = NotCalled
    /\ permitted = NotChecked

InitWith(age_hours) ==
    /\ Constructed(age_hours)
    /\ nlp_text = NoText
    /\ nlp_result = NotParsed

\* The agent as shipped: process_message runs the cleanup with its default.
Init == InitWith({default_max_age_hours})

\* The agent with the cleanup also run under a TTL of one hour, for which
\* the cutoff can be computed at every hour but the first of a day: the
\* code of process_message after the cleanup is reached only then.
InitDialogue == InitWith({1, default_max_age_hours})

\* The results of the backend that a message's handling can depend on: the
\* backend is reached only by a listing and by a confirmation.
BackendsFor(message_text) ==
    IF \/ any_in(listing_words, Lowered[message_text])
       \/ Lowered[message_text] = <<"y", "e", "s">>
        THEN BackendResults
    ELSE {"ok"}

\* Whether an exception can escape the provisioning call: only "yes" makes one.
FaultsFor(message_text) ==
    IF Lowered[message_text] = <<"y", "e", "s">> THEN BOOLEAN ELSE {FALSE}

\* The clock advances by an hour, or by an hour more than the TTL.
TickHours == {1, max_age_hours + 1}

Next ==
    \/ \E conversation \in Conversations, message_text \in Messages :
          \E backend \in BackendsFor(message_text), fault \in FaultsFor(message_text) :
            on_message_activity(conversation.user_id, conversation.conversation_id,
                                message_text, backend, fault)
    \/ \E hours \in TickHours : Tick(hours)

Spec == Init /\ [][Next]_vars

SpecDialogue == InitDialogue /\ [][Next]_vars

(***************************************************************************)
(* The slot extractor on its own: parse_request applied to texts put       *)
(* together from the phrases, one of each kind.                            *)
(***************************************************************************)

Texts ==
    {request \o name \o location \o detail :
        request \in RequestPhrases, name \in NamePhrases,
        location \in LocationPhrases, detail \in DetailPhrases}

\* The users parse_request is called for.
UserIds == {conversation.user_id : conversation \in Conversations}

InitExtract ==
    /\ Constructed({default_max_age_hours})
    /\ nlp_text \in Texts
    /\ nlp_result = NotParsed

ParseRequest(user_id) ==
    /\ nlp_result = NotParsed
    /\ nlp_result' = parse_request(nlp_text, user_id)
    /\ UNCHANGED <<conversation_contexts, security, max_age_hours, now, provision_calls,
                   reply, last, steps, nlp_text>>
    /\ UNCHANGED loop_vars
    /\ UNCHANGED <<azure_result, permitted>>

NextExtract == \E user_id \in UserIds : ParseRequest(user_id)

SpecExtract == InitExtract /\ [][NextExtract]_vars

(***************************************************************************)
(* The Azure client on its own: provision_resource called with the         *)
(* requests the extractor builds, and list_resources, for a backend that   *)
(* answers and for one whose calls raise.                                  *)
(***************************************************************************)

ProvisionResource(backend) ==
    /\ nlp_result # NotParsed
    /\ nlp_result[1] # None
    /\ azure_result = NotCalled
    /\ azure_result' = [call |-> "provision_resource", backend |-> backend,
                        request |-> nlp_result[1],
                        status |-> provision_resource(nlp_result[1], backend)]
    /\ UNCHANGED <<conversation_contexts, security, max_age_hours, now, provision_calls,
                   reply, last, steps, nlp_text, nlp_result, permitted>>
    /\ UNCHANGED loop_vars

ListResources(backend) ==
    /\ azure_result = NotCalled
    /\ azure_result' = [call |-> "list_resources", backend |-> backend,
                        resources |-> list_resources(backend)]
    /\ UNCHANGED <<conversation_contexts, security, max_age_hours, now, provision_calls,
                   reply, last, steps, nlp_text, nlp_result, permitted>>
    /\ UNCHANGED loop_vars

NextClient ==
    \/ \E user_id \in UserIds : ParseRequest(user_id)
    \/ \E backend \in BackendResults : ProvisionResource(backend)
    \/ \E backend \in BackendResults : ListResources(backend)

SpecClient == InitExtract /\ [][NextClient]_vars

(***************************************************************************)
(* The permission gate on its own: _check_user_permissions called for the  *)
(* users under every config.security made of their ids.                    *)
(***************************************************************************)

\* The users the gate is asked about: those of the conversations and one
\* more.
GateUsers == UserIds \cup {<<"b">>}

\* Every allowed_users and admin_users list over those users' ids.
AllSecurityConfigs ==
    [allowed_users : SUBSET GateUsers, admin_users : SUBSET GateUsers]

InitPermissions ==
    /\ conversation_contexts = <<>>
    /\ security \in AllSecurityConfigs
    /\ max_age_hours = default_max_age_hours
    /\ now = 1
    /\ provision_calls = <<>>
    /\ reply = None
    /\ last = NoActivity
    /\ steps = 0
    /\ inbox = EmptyBag
    /\ in_call = <<>>
    /\ serial = NothingHandled
    /\ azure_result = NotCalled
    /\ permitted = NotChecked
    /\ nlp_text = NoText
    /\ nlp_result = NotParsed

CheckUserPermissions(user_id) ==
    /\ permitted = NotChecked
    /\ permitted' = [checked |-> TRUE, user_id |-> user_id,
                     result |-> _check_user_permissions(security, user_id)]
    /\ UNCHANGED <<conversation_contexts, security, max_age_hours, now, provision_calls,
                   reply, last, steps, nlp_text, nlp_result, azure_result>>
    /\ UNCHANGED loop_vars

NextPermissions == \E user_id \in GateUsers : CheckUserPermissions(user_id)

SpecPermissions == InitPermissions /\ [][NextPermissions]_vars

(***************************************************************************)
(* The extractor's methods one by one: extract_resource_type,              *)
(* extract_vm_parameters, extract_storage_parameters and parse_request     *)
(* called with each keyword of the table alone, with VM texts that give a  *)
(* memory size or size codes, and with storage account texts.              *)
(***************************************************************************)

\* The largest number of gigabytes a text asks for.
MaxRam == 33

\* str() of a number below 100.
Decimal(n) ==
    LET digit(d) == CHOOSE c \in Digits : DigitValue[c] = d
    IN  IF n < 10 THEN <<digit(n)>> ELSE <<digit(n \div 10), digit(n % 10)>>

\* Every keyword of resource_keywords as a text.
KeywordTexts ==
    {resource_keywords[kj[1]].keywords[kj[2]] :
        kj \in {ix \in (1..Len(resource_keywords)) \X (1..10) :
                   ix[2] <= Len(resource_keywords[ix[1]].keywords)}}

\* How a text writes the unit of a memory size.
RamUnits ==
    {<<" ", "G", "B">>, <<"G", "B">>, <<" ", "g", "i", "g", "a", "b", "y", "t", "e", "s">>, <<"g">>}

RamText(n, unit) ==
    <<"C", "r", "e", "a", "t", "e", " ", "a", " ", "V", "M", " ", "w", "i", "t", "h", " ">> \o Decimal(n) \o unit

RamTexts == {RamText(n, unit) : n \in 0..MaxRam, unit \in RamUnits}

\* Every size code of vm_size_patterns.
SizeCodes ==
    {vm_size_patterns[c].sizes[j] : c \in 1..Len(vm_size_patterns), j \in 1..4}

\* What a text says after its first size code.
SecondSizes ==
    {<<>>, <<" ", "o", "r", " ", "d", "4", "s">>, <<" ", "o", "r", " ", "b", "1", "s">>, <<" ", "a", "n", "d", " ", "n", "o", "t", " ", "f", "1", "6", "s">>,
     <<" ", "w", "i", "t", "h", " ", "4", " ", "G", "B">>, <<" ", "w", "i", "t", "h", " ", "3", "2", " ", "G", "B">>}

CodeText(code, second) ==
    <<"C", "r", "e", "a", "t", "e", " ", "a", " ", "V", "M", " ", "o", "f", " ", "s", "i", "z", "e", " ">> \o code \o second

CodeTexts == {CodeText(code, second) : code \in SizeCodes, second \in SecondSizes}

\* What a text says of the storage account it asks for.
StorageKinds ==
    {<<>>, <<"p", "r", "e", "m", "i", "u", "m", " ">>, <<"c", "o", "o", "l", " ">>,
     <<"g", "e", "o", "-", "r", "e", "d", "u", "n", "d", "a", "n", "t", " ">>, <<"c", "o", "o", "l", " ", "p", "r", "e", "m", "i", "u", "m", " ">>}

StorageTexts ==
    {<<"I", " ", "n", "e", "e", "d", " ", "a", " ">> \o kind \o <<"s", "t", "o", "r", "a", "g", "e", " ", "a", "c", "c", "o", "u", "n", "t">> \o name \o location :
        kind \in StorageKinds, name \in NamePhrases, location \in LocationPhrases}

ExtractorTexts == KeywordTexts \cup RamTexts \cup CodeTexts \cup StorageTexts

InitExtractors ==
    /\ Constructed({default_max_age_hours})
    /\ nlp_text \in ExtractorTexts
    /\ nlp_result = NotParsed

\* A call of one extractor method: the method, its argument and what it
\* returned.
ExtractorCall(method, text, result) == <<method, text, result>>

ExtractResourceType ==
    /\ nlp_result = NotParsed
    /\ nlp_result' = ExtractorCall("extract_resource_type", nlp_text,
                                   extract_resource_type(nlp_text))
    /\ UNCHANGED <<conversation_contexts, security, max_age_hours, now, provision_calls,
                   reply, last, steps, nlp_text>>
    /\ UNCHANGED loop_vars
    /\ UNCHANGED <<azure_result, permitted>>

\* parse_request calls extract_vm_parameters for the texts it detects as a
\* virtual machine,
ExtractVmParameters ==
    /\ nlp_result = NotParsed
    /\ extract_resource_type(nlp_text) = "virtual_machine"
    /\ nlp_result' = ExtractorCall("extract_vm_parameters", nlp_text,
                                   extract_vm_parameters(nlp_text))
    /\ UNCHANGED <<conversation_contexts, security, max_age_hours, now, provision_calls,
                   reply, last, steps, nlp_text>>
    /\ UNCHANGED loop_vars
    /\ UNCHANGED <<azure_result, permitted>>

\* and extract_storage_parameters for those it detects as a storage account.
ExtractStorageParameters ==
    /\ nlp_result = NotParsed
    /\ extract_resource_type(nlp_text) = "storage_account"
    /\ nlp_result' = ExtractorCall("extract_storage_parameters", nlp_text,
                                   extract_storage_parameters(nlp_text))
    /\ UNCHANGED <<conversation_contexts, security, max_age_hours, now, provision_calls,
                   reply, last, steps, nlp_text>>
    /\ UNCHANGED loop_vars
    /\ UNCHANGED <<azure_result, permitted>>

NextExtractors ==
    \/ ExtractResourceType
    \/ ExtractVmParameters
    \/ ExtractStorageParameters
    \/ \E user_id \in UserIds : ParseRequest(user_id)

SpecExtractors == InitExtractors /\ [][NextExtractors]_vars

(***************************************************************************)
(* The handlers as tasks of one asyncio event loop.  on_message_activity   *)
(* is a coroutine: the loop runs it until it suspends.  The coroutines it  *)
(* awaits before it sends the response (process_message and                *)
(* confirm_and_provision, and those they await) await no I/O, so they      *)
(* never suspend; azure_client.provision_resource is an ordinary call      *)
(* made on the loop's thread.  The handler suspends in _send_response,     *)
(* after its last access to the store.                                     *)
(***************************************************************************)

\* The texts of the activities delivered to the loop.
LoopMessages ==
    {"Create a Windows VM named web01 in East US, username admin", "yes", "web01"}

\* turn_context.activity, as far as on_message_activity reads it.
IncomingActivity(user_id, conversation_id, message_text) ==
    [user_id |-> user_id, conversation_id |-> conversation_id, text |-> message_text]

activity_key(activity) == context_key(activity.user_id, activity.conversation_id)

\* The adapter receives an activity; the task of its handler waits for the
\* loop.
Deliver(user_id, conversation_id, message_text) ==
    /\ steps < MaxSteps
    /\ steps' = steps + 1
    /\ inbox' = inbox (+) SetToBag({IncomingActivity(user_id, conversation_id, message_text)})
    /\ UNCHANGED <<conversation_contexts, security, max_age_hours, now, provision_calls,
                   reply, last, nlp_text, nlp_result, in_call, serial, azure_result, permitted>>

\* provision_resource awaited, with the loop free to run other tasks
\* while it is in progress.
event_loop_never_blocked(calls) == FALSE

\* provision_resource is called, not awaited: while a call is in progress
\* the thread of the loop is inside it and the loop runs no task.
event_loop_blocked(calls) == calls # <<>>

\* The loop can start the handler of a waiting activity.
CanStart(activity) == BagIn(activity, inbox) /\ ~event_loop_blocked(in_call)

\* on_message_activity as one call, on the store and the log of calls in
\* state: what handling the activity alone makes of them.
handled_alone(state, activity, backend, fault) ==
    LET processed ==
            process_message(state.contexts, security, now, max_age_hours, activity.user_id,
                            activity.conversation_id, activity.text, backend)
        is_confirmation == Lowered[activity.text] \in confirmation_words
        confirmed ==
            confirm_and_provision(processed.contexts, state.calls, now, activity.user_id,
                                  activity.conversation_id,
                                  Lowered[activity.text] = <<"y", "e", "s">>, backend, fault)
    IN  [contexts |-> IF is_confirmation THEN confirmed.contexts ELSE processed.contexts,
         calls |-> IF is_confirmation THEN confirmed.calls ELSE state.calls,
         concurrent |-> state.concurrent]

\* Another activity of the same context is waiting when the handler of
\* activity starts.
WaitingWith(activity) ==
    \E other \in BagToSet(inbox (-) SetToBag({activity})) :
        activity_key(other) = activity_key(activity)

\* on_message_activity from its start to the call of provision_resource,
\* or to the sending of the response when it makes no such call.  backend
\* and fault are what the backend will answer.
StartHandler(activity, backend, fault) ==
    LET user_id == activity.user_id
        conversation_id == activity.conversation_id
        key == activity_key(activity)
        processed ==
            process_message(conversation_contexts, security, now, max_age_hours,
                            user_id, conversation_id, activity.text, backend)
        got == _get_conversation_context(processed.contexts, user_id, conversation_id, now)
        request == got[key].current_request
        concurrent == serial.concurrent \/ WaitingWith(activity)
    IN  /\ CanStart(activity)
        /\ inbox' = inbox (-) SetToBag({activity})
        /\ IF Lowered[activity.text] = <<"y", "e", "s">> /\ request # None
               THEN /\ conversation_contexts' = got
                    /\ provision_calls' = Append(provision_calls, request)
                    /\ in_call' = Append(in_call,
                                         [activity |-> activity, request |-> request,
                                          backend |-> backend, fault |-> fault,
                                          before |-> Fields(conversation_contexts, key),
                                          processed |-> Fields(processed.contexts, key)])
                    /\ serial' = [serial EXCEPT !.concurrent = concurrent]
                    /\ UNCHANGED <<reply, last>>
           ELSE /\ handle_confirmation(user_id, conversation_id, activity.text, processed,
                                       backend, fault)
                /\ serial' = [handled_alone(serial, activity, backend, fault)
                                  EXCEPT !.concurrent = concurrent]
                /\ UNCHANGED in_call
        /\ UNCHANGED <<security, max_age_hours, now, steps, nlp_text, nlp_result,
                       azure_result, permitted>>

\* The sequence without its i-th element.
Without(calls, i) == SubSeq(calls, 1, i - 1) \o SubSeq(calls, i + 1, Len(calls))

\* confirm_and_provision after provision_resource: the call has returned
\* or raised, and the handler goes on to the sending of the response.
ProvisioningReturns(i) ==
    LET call == in_call[i]
        key == activity_key(call.activity)
        status == provision_resource(call.request, call.backend)
        response ==
            IF call.fault
                THEN provisioning_fault(conversation_contexts, provision_calls, call.request).reply
            ELSE IF status = "completed"
                THEN BotMessage(generate_response(call.request, "completed"), None)
            ELSE BotMessage(<<"Failed to create resource:", status>>, None)
    IN  /\ in_call' = Without(in_call, i)
        /\ conversation_contexts' =
               IF call.fault THEN conversation_contexts
               ELSE [conversation_contexts EXCEPT ![key] = cleared(@)]
        /\ reply' = IF response = Raised THEN adapter_error_message ELSE response
        /\ last' = [user_id |-> call.activity.user_id,
                    conversation_id |-> call.activity.conversation_id,
                    text |-> call.activity.text,
                    before |-> call.before, processed |-> call.processed,
                    outcome |-> IF call.fault THEN "raised" ELSE status]
        /\ serial' = handled_alone(serial, call.activity, call.backend, call.fault)
        /\ UNCHANGED <<security, max_age_hours, now, provision_calls, steps, nlp_text,
                       nlp_result, inbox, azure_result, permitted>>

NextLoop ==
    \/ \E conversation \in Conversations, message_text \in LoopMessages :
          Deliver(conversation.user_id, conversation.conversation_id, message_text)
    \/ \E activity \in BagToSet(inbox) :
          \E backend \in BackendsFor(activity.text), fault \in FaultsFor(activity.text) :
            StartHandler(activity, backend, fault)
    \/ \E i \in DOMAIN in_call : ProvisioningReturns(i)

SpecLoop == InitDialogue /\ [][NextLoop]_vars

(***************************************************************************)
(* The contract of the dialogue engine.  A property of the handling of one *)
(* activity is a property of the step that handles it: the unprimed        *)
(* variables are the state the activity arrives in, the primed ones the    *)
(* state it leaves, and last' is the activity.                             *)
(***************************************************************************)

\* The step handles an activity (the clock stands still).
Activity == steps' = steps + 1 /\ now' = now

\* The key of the last activity handled.
LastKey == context_key(last.user_id, last.conversation_id)

\* The last activity's context as the step has left it.
LastFields == Fields(conversation_contexts, LastKey)

Idle(fields) ==
    /\ fields.current_request = None
    /\ fields.pending_questions = <<>>
    /\ fields.collected_parameters = EmptyDict

\* The activity of the step comes from the pair of the activity before it.
SamePair == last'.user_id = last.user_id /\ last'.conversation_id = last.conversation_id

IsComplete(message_text) == message_text \in Messages /\ Parsed[message_text][1] # None

\* C1: from an Idle context, a complete-request message and then "yes" for
\* the same (user, conversation), both delivered through
\* on_message_activity, make exactly one call to the provisioning
\* collaborator and leave the context Idle.
C1_CompleteThenYesProvisionsOnce ==
    [][(/\ Activity
        /\ IsComplete(last.text)
        /\ Idle(last.before)
        /\ last'.text = "yes"
        /\ SamePair)
       => (/\ Len(provision_calls') = Len(provision_calls) + 1
           /\ Idle(LastFields'))]_vars

\* process_message gets past its cleanup and its permission check for the
\* activity of the step.
ReachesDialogue ==
    /\ Activity
    /\ ~cutoff_raises(now, max_age_hours)
    /\ _check_user_permissions(security, last'.user_id)

\* The dialogue fields process_message finds for the activity of the step,
\* once its cleanup has run.
Entering ==
    Fields(_cleanup_old_contexts(conversation_contexts, now, max_age_hours), LastKey')

\* The message is none of the words process_message intercepts before it
\* looks at the pending questions.
IsAnswer(message_text) ==
    /\ Lowered[message_text] \notin cancel_words \cup help_words
    /\ ~any_in(listing_words, Lowered[message_text])

SlotsFromUser(request) ==
    /\ request.name # unnamed_resource
    /\ request.location # default_location
    /\ request.resource_type = "virtual_machine"
           => {"vm_type", "admin_username"} \subseteq DOMAIN request.parameters
    /\ request.resource_type = "web_app" => "runtime" \in DOMAIN request.parameters

C6_NothingToConfirmLeavesContext ==
    [][(/\ Activity
        /\ Lowered[last'.text] = <<"y", "e", "s">>
        /\ last'.processed.current_request = None)
       => (/\ reply' = no_pending_request_message
           /\ provision_calls' = provision_calls
           /\ last'.outcome = "no call"
           /\ LastFields' = last'.processed)]_vars

\* A "yes" has been confirmed on a context with no current_request whose
\* pending questions and collected answers are both there afterwards.
C6_Witness ==
    /\ last.text = "yes"
    /\ last.processed.current_request = None
    /\ last.processed.collected_parameters # EmptyDict
    /\ reply = no_pending_request_message
    /\ LastKey \in DOMAIN conversation_contexts
    /\ conversation_contexts[LastKey].collected_parameters = last.processed.collected_parameters
    /\ conversation_contexts[LastKey].pending_questions # <<>>

\* C7: from every dialogue state, a message that is one of the control
\* words cancel, stop, abort (from a user the permission check admits)
\* leaves the three context fields cleared, is answered with the
\* cancellation acknowledgment and makes no provisioning call; it is never
\* stored as the answer to a pending question.
C7_CancelResetsAndAcknowledges ==
    [][(/\ Activity
        /\ Lowered[last'.text] \in cancel_words
        /\ _check_user_permissions(security, last'.user_id))
       => (/\ Idle(LastFields')
           /\ reply' = operation_cancelled_message
           /\ provision_calls' = provision_calls)]_vars

\* C8: every message of a user the permission check rejects, "yes" and "no"
\* included, is answered with the fixed denial message, creates or modifies
\* no ConversationContext, and causes no provisioning call.
C8_DeniedUserChangesNothing ==
    [][(/\ Activity
        /\ ~_check_user_permissions(security, last'.user_id))
       => (/\ reply' = permission_denied_message
           /\ \A key \in DOMAIN conversation_contexts' :
                  /\ key \in DOMAIN conversation_contexts
                  /\ conversation_contexts'[key] = conversation_contexts[key]
           /\ provision_calls' = provision_calls)]_vars

\* C9: with the default TTL of 24 hours, the handling of any message starts
\* by evicting exactly the contexts whose last_activity is more than 24
\* hours old: one that has been idle for 25 hours is gone afterwards (or
\* created anew), one active within the last 24 hours is still there.
C9_DefaultTtlEvictsStaleContexts ==
    [][(Activity /\ max_age_hours = default_max_age_hours)
       => \A key \in DOMAIN conversation_contexts :
              IF now - conversation_contexts[key].last_activity > default_max_age_hours
                  THEN \/ key \notin DOMAIN conversation_contexts'
                       \/ conversation_contexts'[key].created_at = now
              ELSE /\ key \in DOMAIN conversation_contexts'
                   /\ conversation_contexts'[key].created_at =
                          conversation_contexts[key].created_at]_vars

\* C10: two distinct (user_id, conversation_id) pairs never resolve to the
\* same ConversationContext: a context in the store is the context of one
\* pair only.
C10_DistinctPairsDistinctContexts ==
    \A p, q \in Conversations :
        (/\ context_key(p.user_id, p.conversation_id) \in DOMAIN conversation_contexts
         /\ context_key(p.user_id, p.conversation_id) =
                context_key(q.user_id, q.conversation_id))
            => p = q

\* The reply's text contains the question.
Asks(bot_message, question) ==
    \E i \in DOMAIN bot_message.text : bot_message.text[i] = question

HasParsed == nlp_result # NotParsed

ScenarioA == Chars["Create a Windows VM named web01 in East US, username admin"]

\* C12: parse_request on "Create a Windows VM named web01 in East US,
\* username admin" returns a complete VM request with name "web01",
\* location "East Us", vm_type windows and admin_username "admin", and an
\* empty missing list; and whenever a text contains both a "named <token>"
\* and a "username <token>" phrase, the extracted name is the token after
\* "named".
C12_NamedTokenIsTheName ==
    HasParsed =>
        /\ nlp_text = ScenarioA =>
               /\ nlp_result[2] = <<>>
               /\ nlp_result[1] # None
               /\ nlp_result[1].resource_type = "virtual_machine"
               /\ nlp_result[1].name = <<"w", "e", "b", "0", "1">>
               /\ nlp_result[1].location = <<"E", "a", "s", "t", " ", "U", "s">>
               /\ nlp_result[1].parameters["vm_type"] = "windows"
               /\ nlp_result[1].parameters["admin_username"] = <<"a", "d", "m", "i", "n">>
        /\ (/\ Search(nlp_text, NamedAt) # NoText
            /\ Search(str_lower(nlp_text), UsernameMatchAt) # NoText)
               => extract_name(nlp_text) = Search(nlp_text, NamedAt)

\* No phrase of the resource-type keyword table is a substring of the text,
\* letter case aside.
NoKeyword(text) ==
    \A i \in DOMAIN resource_keywords :
        \A j \in DOMAIN resource_keywords[i].keywords :
            ~str_in(resource_keywords[i].keywords[j], str_lower(text))

\* C13: for every text without a phrase of the resource-type keyword table,
\* parse_request returns no request and a missing list of exactly one
\* element, the resource-type clarifying question, whatever name, location,
\* parameter or tag phrases the text has.
C13_NoKeywordOneQuestion ==
    (HasParsed /\ NoKeyword(nlp_text))
        => nlp_result = <<None, <<resource_type_question>>>>

\* A text without a keyword, but with a name, a location and a username
\* phrase, has been parsed to the one clarifying question.
C13_Witness ==
    /\ HasParsed
    /\ NoKeyword(nlp_text)
    /\ extract_name(nlp_text) # NoText
    /\ extract_location(nlp_text) # NoText
    /\ "admin_username" \in DOMAIN extract_vm_parameters(nlp_text)
    /\ nlp_result = <<None, <<resource_type_question>>>>

\* s is t with some of its elements left out.
IsSubsequence(s, t) ==
    \E f \in [1..Len(s) -> 1..Len(t)] :
        /\ \A i \in 1..Len(s) : s[i] = t[f[i]]
        /\ \A i, j \in 1..Len(s) : i < j => f[i] < f[j]

\* The fixed order of the questions for a resource type.
QuestionOrder(resource_type) ==
    IF resource_type = "virtual_machine"
        THEN <<name_question, region_question, vm_type_question, admin_username_question>>
    ELSE IF resource_type = "web_app"
        THEN <<name_question, region_question, runtime_question>>
    ELSE <<name_question, region_question>>

\* C14: for every text with a detected resource type, the missing list of
\* parse_request is a subsequence of the fixed order of the type's
\* questions (name, region, then VM type and admin username for a VM, or
\* runtime for a web app), so that no question appears twice.
C14_MissingListInFixedOrder ==
    (HasParsed /\ ~NoKeyword(nlp_text))
        => IsSubsequence(nlp_result[2], QuestionOrder(extract_resource_type(nlp_text)))

\* A VM text with a name and an OS family has been parsed: the region and
\* the admin username are asked for, in that order.
C14_Witness ==
    /\ HasParsed
    /\ extract_resource_type(nlp_text) = "virtual_machine"
    /\ nlp_result = <<None, <<region_question, admin_username_question>>>>

\* The extractors have matched every slot the type of the text needs.
AllSlotsMatched(text) ==
    /\ extract_resource_type(text) # NoResourceType
    /\ extract_name(text) # NoText
    /\ extract_location(text) # NoText
    /\ extract_resource_type(text) = "virtual_machine"
           => {"vm_type", "admin_username"} \subseteq DOMAIN extract_vm_parameters(text)
    /\ extract_resource_type(text) = "web_app"
           => "runtime" \in DOMAIN extract_webapp_parameters(text)

\* The parameters of the extractor that belongs to the type of the text.
ExtractedParameters(text) ==
    IF extract_resource_type(text) = "virtual_machine" THEN extract_vm_parameters(text)
    ELSE IF extract_resource_type(text) = "storage_account"
        THEN extract_storage_parameters(text)
    ELSE IF extract_resource_type(text) = "web_app" THEN extract_webapp_parameters(text)
    ELSE EmptyDict

\* C15: parse_request returns a request exactly when its missing list is
\* empty, which is exactly when a resource type, a name, a location and the
\* type's mandatory slots were matched; the request's resource_type, name,
\* location, parameters and tags are the values of the individual
\* extractors; a request never comes with a non-empty missing list.
C15_RequestIffNothingMissing ==
    HasParsed =>
        /\ (nlp_result[1] # None) <=> (nlp_result[2] = <<>>)
        /\ (nlp_result[1] # None) <=> AllSlotsMatched(nlp_text)
        /\ nlp_result[1] # None =>
               /\ nlp_result[1].resource_type = extract_resource_type(nlp_text)
               /\ nlp_result[1].name = extract_name(nlp_text)
               /\ nlp_result[1].location = extract_location(nlp_text)
               /\ nlp_result[1].parameters = ExtractedParameters(nlp_text)
               /\ nlp_result[1].tags = extract_tags(nlp_text)

\* A complete request with a tag has been returned for a type that is not
\* a VM.
C15_Witness ==
    /\ HasParsed
    /\ nlp_result[2] = <<>>
    /\ nlp_result[1] # None
    /\ nlp_result[1].resource_type # "virtual_machine"
    /\ nlp_result[1].tags # EmptyDict
    /\ nlp_result[1].parameters # EmptyDict

IsBotMessage(response) == DOMAIN response = {"text", "suggested_actions"}

\* C20: process_message and confirm_and_provision never propagate a fault
\* to their caller.  For every activity, whatever the context, the backend's
\* result and whether the cleanup or the collaborator call raises, the
\* response on_message_activity sends is a BotMessage one of the two has
\* returned, never the message of its own except branch; this holds for the
\* activities that follow a fault as well.
C20_NoFaultReachesTheCaller ==
    [][Activity => (IsBotMessage(reply') /\ reply' # adapter_error_message)]_vars

\* Three activities with two provisioning calls: the first call raised (a
\* call that returns clears the request), and the "yes" after it is
\* processed to a created resource.
C20_Witness ==
    /\ steps = 3
    /\ now = 1
    /\ Len(provision_calls) = 2
    /\ last.outcome = "completed"
    /\ IsBotMessage(reply)

(***************************************************************************)
(* The contract under concurrent delivery.                                 *)
(***************************************************************************)

\* The calls of provision_resource in progress for the context key.
InProgressFor(key) == {i \in DOMAIN in_call : activity_key(in_call[i].activity) = key}

\* The context keys of the conversations.
ContextKeys ==
    {context_key(conversation.user_id, conversation.conversation_id) :
        conversation \in Conversations}

\* C16: for every (user, conversation) key and every interleaving of the
\* deliveries, at most one call to the provisioning collaborator for that
\* key is in progress at any time.
C16_OneCallInProgressPerKey ==
    \A key \in ContextKeys : Cardinality(InProgressFor(key)) <= 1

\* A provisioning call is in progress while a second "yes" for the same
\* context, whose request is still stored, waits for the loop.
C16_Witness ==
    /\ in_call # <<>>
    /\ \E activity \in BagToSet(inbox) :
          /\ activity.text = "yes"
          /\ activity_key(activity) = activity_key(in_call[1].activity)
          /\ Fields(conversation_contexts, activity_key(activity)).current_request # None

C18_ConcurrentDeliveriesSerialize ==
    in_call = <<>> =>
        /\ conversation_contexts = serial.contexts
        /\ provision_calls = serial.calls

\* Two activities of one context have waited for the loop at once, all
\* activities delivered have been handled, and one of them was a
\* confirmation that provisioned.
C18_Witness ==
    /\ serial.concurrent
    /\ inbox = EmptyBag
    /\ in_call = <<>>
    /\ steps >= 2
    /\ provision_calls # <<>>

(***************************************************************************)
(* Frames, idempotence and invariants of the dialogue.                     *)
(***************************************************************************)

\* The message is a help word, or contains a listing word.
IsHelpOrListing(message_text) ==
    \/ Lowered[message_text] \in help_words
    \/ any_in(listing_words, Lowered[message_text])

\* The dialogue fields the handling of the step's activity starts from:
\* those the cleanup leaves, or those in the store when the cleanup raises.
Found == IF cutoff_raises(now, max_age_hours) THEN last'.before ELSE Entering

\* C21: in every dialogue state, a help word or a message with a listing
\* word leaves current_request, pending_questions and collected_parameters
\* as they are and makes no provisioning call; with questions pending it is
\* not taken as the answer to the front question.
C21_HelpAndListingChangeNothing ==
    [][(Activity /\ IsHelpOrListing(last'.text))
       => (/\ LastFields' = Found
           /\ provision_calls' = provision_calls)]_vars

\* A help or listing message has been handled in CollectingParameters and
\* the questions are still pending.
C21_Witness ==
    /\ last.text \in Messages
    /\ IsHelpOrListing(last.text)
    /\ ~cutoff_raises(now, max_age_hours)
    /\ _check_user_permissions(security, last.user_id)
    /\ last.before.pending_questions # <<>>
    /\ LastFields = last.before

\* The context without its last_activity.
Unrefreshed(context) ==
    [user_id |-> context.user_id, conversation_id |-> context.conversation_id,
     current_request |-> context.current_request,
     pending_questions |-> context.pending_questions,
     collected_parameters |-> context.collected_parameters,
     created_at |-> context.created_at]

\* Calling _get_conversation_context for the pair at the time once and
\* again at the time again: the second call finds the context of the
\* first, adds no entry and changes only last_activity, and the first adds
\* at most the entry of the pair and changes only the last_activity of a
\* context it finds.
GetIsIdempotent(contexts, user_id, conversation_id, once, again) ==
    LET key == context_key(user_id, conversation_id)
        first == _get_conversation_context(contexts, user_id, conversation_id, once)
        second == _get_conversation_context(first, user_id, conversation_id, again)
    IN  /\ DOMAIN first = DOMAIN contexts \cup {key}
        /\ DOMAIN second = DOMAIN first
        /\ \A other \in DOMAIN first \ {key} :
              first[other] = contexts[other] /\ second[other] = contexts[other]
        /\ key \in DOMAIN contexts => Unrefreshed(first[key]) = Unrefreshed(contexts[key])
        /\ Unrefreshed(second[key]) = Unrefreshed(first[key])
        /\ first[key].last_activity = once
        /\ second[key].last_activity = again

\* C22: _get_conversation_context is idempotent.  On every store the agent
\* reaches, for every pair, a call and a second call at the same or a later
\* time return the same context, create at most one entry for the key,
\* leave current_request, pending_questions, collected_parameters and
\* created_at unchanged, and change only last_activity, which does not
\* decrease.
C22_GetContextIsIdempotent ==
    \A conversation \in Conversations : \A later \in {0, 1} :
        /\ GetIsIdempotent(conversation_contexts, conversation.user_id,
                           conversation.conversation_id, now, now + later)
        /\ \A key \in DOMAIN conversation_contexts :
              /\ conversation_contexts[key].last_activity <= now
              /\ conversation_contexts[key].created_at
                     <= conversation_contexts[key].last_activity

\* A context in the middle of a dialogue that was created at one hour and
\* retrieved again at a later one.
C22_Witness ==
    \E key \in DOMAIN conversation_contexts :
        /\ conversation_contexts[key].created_at < conversation_contexts[key].last_activity
        /\ conversation_contexts[key].pending_questions # <<>>

\* C23: a failure inside the provisioning backend is never propagated as a
\* fault.  provision_resource returns a response, whose status is FAILED
\* whenever the backend fails and for every resource type it has no
\* provisioning branch for; list_resources returns the empty sequence when
\* the read of the backend fails.
C23_BackendFailuresAreReported ==
    /\ azure_result.call = "provision_resource" =>
          /\ azure_result.status \in {"completed", "failed"}
          /\ azure_result.backend = "error" => azure_result.status = "failed"
          /\ azure_result.request.resource_type \notin provisioned_types
                 => azure_result.status = "failed"
    /\ azure_result.call = "list_resources" =>
          /\ azure_result.resources \in Seq({listed_resource})
          /\ azure_result.backend = "error" => azure_result.resources = <<>>

\* provision_resource has been called for a virtual machine with the
\* backend failing, and has returned a response.
C23_Witness ==
    /\ azure_result.call = "provision_resource"
    /\ azure_result.backend = "error"
    /\ azure_result.request.resource_type = "virtual_machine"
    /\ azure_result.status = "failed"

\* The message is an ordinary one: no cancel, help or listing word and no
\* confirmation token.
IsOrdinary(message_text) ==
    IsAnswer(message_text) /\ Lowered[message_text] \notin confirmation_words

\* C25: in CollectingParameters an ordinary message removes exactly the
\* front question q of pending_questions, puts exactly the entry
\* q -> message text into collected_parameters and leaves the order of the
\* remaining questions; when questions remain, the reply is the new front
\* question and the context stays in CollectingParameters.
C25_AnswerPopsFrontQuestion ==
    [][(/\ ReachesDialogue
        /\ Entering.pending_questions # <<>>
        /\ IsOrdinary(last'.text))
       => (/\ LastFields'.pending_questions = Tail(Entering.pending_questions)
           /\ LastFields'.collected_parameters =
                  DictSet(Entering.collected_parameters,
                          Head(Entering.pending_questions), last'.text)
           /\ Tail(Entering.pending_questions) # <<>>
                  => (/\ reply' = BotMessage(<<Entering.pending_questions[2]>>, None)
                      /\ LastFields'.current_request = Entering.current_request))]_vars

\* An ordinary message has answered the first of two pending questions and
\* the reply is the second.
C25_Witness ==
    /\ last.text \in Messages
    /\ IsOrdinary(last.text)
    /\ Len(last.before.pending_questions) = 2
    /\ LastFields.pending_questions = Tail(last.before.pending_questions)
    /\ reply = BotMessage(LastFields.pending_questions, None)
    /\ last.before.pending_questions[1] \in DOMAIN LastFields.collected_parameters

C27_CutoffIsComputedAtEveryHour ==
    [][Activity
       => (/\ ~cutoff_raises(now, max_age_hours)
           /\ cutoff_time(now, max_age_hours) = now - max_age_hours
           /\ reply' # processing_error_message)]_vars

\* C28: the permission check authorises every user listed in admin_users,
\* every user listed in allowed_users, and every user when allowed_users is
\* empty; it denies only the users who are absent from a non-empty
\* allowed_users and are no admins.
C28_PermissionCheckAuthorises ==
    permitted.checked =>
        (permitted.result <=>
            \/ permitted.user_id \in security.admin_users
            \/ permitted.user_id \in security.allowed_users
            \/ security.allowed_users = {})

C31_PendingQuestionsOnlyShrink ==
    [][(Activity /\ Found.pending_questions # <<>>)
       => (/\ Len(LastFields'.pending_questions) <= Len(Found.pending_questions)
           /\ (ReachesDialogue /\ IsOrdinary(last'.text))
                  => Len(LastFields'.pending_questions)
                         = Len(Found.pending_questions) - 1)]_vars

\* A dialogue that entered CollectingParameters with the two questions of
\* an incomplete storage request has left it after two ordinary answers.
C31_Witness ==
    /\ steps = 3
    /\ last.text \in Messages
    /\ IsOrdinary(last.text)
    /\ Len(last.before.pending_questions) = 1
    /\ LastFields.pending_questions = <<>>
    /\ {name_question, region_question} \subseteq DOMAIN LastFields.collected_parameters

\* C32: for every resource type the extractor returns, the provisioning of
\* a complete request of that type ends with status COMPLETED when the
\* backend succeeds.
C32_EveryDetectedTypeCanBeProvisioned ==
    (azure_result.call = "provision_resource" /\ azure_result.backend = "ok")
        => azure_result.status = "completed"

Called(method) == Len(nlp_result) = 3 /\ nlp_result[1] = method

\* The entries of the keyword table one of whose phrases occurs in the
\* lower-cased text.
EntriesOccurring(text) ==
    {k \in 1..Len(resource_keywords) :
        \E j \in 1..Len(resource_keywords[k].keywords) :
            str_in(resource_keywords[k].keywords[j], str_lower(text))}

\* The type a phrase of the keyword table is listed under.
ListedUnder(phrase) ==
    LET k == CHOOSE e \in 1..Len(resource_keywords) :
                 \E j \in 1..Len(resource_keywords[e].keywords) :
                     resource_keywords[e].keywords[j] = phrase
    IN  resource_keywords[k].resource_type

\* The first half of C34: the detected type is that of the first entry with
\* a phrase occurring in the text, and None when there is no such entry.
FirstEntryIsDetected ==
    Called("extract_resource_type")
        => LET entries == EntriesOccurring(nlp_result[2])
           IN  IF entries = {} THEN nlp_result[3] = NoResourceType
               ELSE \E k \in entries :
                        /\ \A o \in entries : k <= o
                        /\ nlp_result[3] = resource_keywords[k].resource_type

\* C34: extract_resource_type returns the type of the first entry of the
\* keyword table, in table order, that has a phrase occurring in the
\* lower-cased text, and so every phrase of the table, given alone as the
\* text, is detected as the type it is listed under.
C34_EveryKeywordDetectsItsOwnType ==
    /\ FirstEntryIsDetected
    /\ (Called("extract_resource_type") /\ nlp_result[2] \in KeywordTexts)
           => nlp_result[3] = ListedUnder(nlp_result[2])

\* The sizes of the ladder, smallest first, and the numbers of gigabytes at
\* which a tier ends.
SizeLadder ==
    <<<<"S", "t", "a", "n", "d", "a", "r", "d", "_", "B", "1", "s">>,
      <<"S", "t", "a", "n", "d", "a", "r", "d", "_", "B", "2", "s">>,
      <<"S", "t", "a", "n", "d", "a", "r", "d", "_", "D", "2", "s", "_", "v", "3">>,
      <<"S", "t", "a", "n", "d", "a", "r", "d", "_", "D", "4", "s", "_", "v", "3">>,
      <<"S", "t", "a", "n", "d", "a", "r", "d", "_", "D", "8", "s", "_", "v", "3">>,
      <<"S", "t", "a", "n", "d", "a", "r", "d", "_", "D", "1", "6", "s", "_", "v", "3">>>>

TierEnds == <<1, 2, 4, 8, 16>>

\* The tier of n gigabytes: one more than the number of tiers that end below n.
Tier(n) == 1 + Cardinality({i \in 1..Len(TierEnds) : n > TierEnds[i]})

\* C35: for every number N of a "<N> GB" phrase in a VM text, the size
\* extract_vm_parameters returns is the one of the ladder N<=1 Standard_B1s,
\* N<=2 Standard_B2s, N<=4 Standard_D2s_v3, N<=8 Standard_D4s_v3, N<=16
\* Standard_D8s_v3, above 16 Standard_D16s_v3: a size for every N, never a
\* smaller one for a larger N, changing exactly after 1, 2, 4, 8 and 16.
C35_RamLadder ==
    \A n \in 0..MaxRam : \A unit \in RamUnits :
        (Called("extract_vm_parameters") /\ nlp_result[2] = RamText(n, unit))
            => /\ "size" \in DOMAIN nlp_result[3]
               /\ nlp_result[3]["size"] = SizeLadder[Tier(n)]

\* extract_vm_parameters has returned Standard_D16s_v3 for 17 GB, the first
\* number above the last tier end.
C35_Witness ==
    /\ Called("extract_vm_parameters")
    /\ nlp_result[2] = RamText(17, <<" ", "G", "B">>)
    /\ nlp_result[3]["size"] = SizeLadder[6]

\* The size codes of vm_size_patterns in the order the loop tries them:
\* basic, standard, memory_optimized, compute_optimized, each in list order.
SizeCodesInOrder ==
    [i \in 1..(4 * Len(vm_size_patterns)) |->
        vm_size_patterns[((i - 1) \div 4) + 1].sizes[((i - 1) % 4) + 1]]

\* The first size code, in that order, that occurs in the lower-cased text.
FirstSizeCode(text) ==
    LET hits == {i \in DOMAIN SizeCodesInOrder : str_in(SizeCodesInOrder[i], str_lower(text))}
    IN  SizeCodesInOrder[CHOOSE i \in hits : \A o \in hits : i <= o]

\* C36: when a VM text has size codes of more than one tier, or a size code
\* and a "<N> GB" phrase, the size extract_vm_parameters returns is that of
\* the first alternative that matches, in the order basic, standard,
\* memory_optimized, compute_optimized and then the GB pattern; no later
\* match replaces it.
C36_FirstSizeMatchWins ==
    (Called("extract_vm_parameters") /\ nlp_result[2] \in CodeTexts)
        => /\ "size" \in DOMAIN nlp_result[3]
           /\ nlp_result[3]["size"]
                  = <<"S", "t", "a", "n", "d", "a", "r", "d", "_">> \o str_upper(FirstSizeCode(nlp_result[2]))

\* None of the words extract_storage_parameters looks for occurs in the text.
NoStorageKeyword(text) ==
    \A word \in {<<"p", "r", "e", "m", "i", "u", "m">>, <<"g", "e", "o">>,
                 <<"r", "e", "d", "u", "n", "d", "a", "n", "t">>, <<"c", "o", "o", "l">>} :
        ~str_in(word, str_lower(text))

\* A parameters dict has both storage keys, with the defaults when the text
\* has none of the words.
SuppliesStorageParameters(parameters, text) ==
    /\ {"account_type", "access_tier"} \subseteq DOMAIN parameters
    /\ NoStorageKeyword(text)
           => (parameters["account_type"] = "Standard_LRS" /\ parameters["access_tier"] = "Hot")

\* C37: for every text detected as a storage account,
\* extract_storage_parameters returns an account_type and an access_tier
\* (Standard_LRS and Hot when none of its words occurs), the request of
\* parse_request carries them, and the missing list of parse_request has no
\* storage question: it is a subsequence of the name question and the region
\* question, and for "I need a storage account" it is exactly these two in
\* this order.
C37_StorageDefaultsAndQuestions ==
    /\ Called("extract_storage_parameters")
           => SuppliesStorageParameters(nlp_result[3], nlp_result[2])
    /\ (Len(nlp_result) = 2 /\ extract_resource_type(nlp_text) = "storage_account")
           => /\ IsSubsequence(nlp_result[2], <<name_question, region_question>>)
              /\ nlp_result[1] # None
                     => SuppliesStorageParameters(nlp_result[1].parameters, nlp_text)
              /\ nlp_text = <<"I", " ", "n", "e", "e", "d", " ", "a", " ", "s", "t", "o", "r", "a", "g", "e", " ", "a", "c", "c", "o", "u", "n", "t">>
                     => nlp_result[2] = <<name_question, region_question>>

\* parse_request has built the request of a storage account text that names
\* the account and the region and has none of the storage words, with the
\* two defaults and nothing left to ask.
C37_Witness ==
    /\ Len(nlp_result) = 2
    /\ nlp_text = <<"I", " ", "n", "e", "e", "d", " ", "a", " ", "s", "t", "o", "r", "a", "g", "e", " ", "a", "c", "c", "o", "u", "n", "t", " ", "n", "a", "m", "e", "d", " ", "w", "e", "b", "0", "1", " ", "i", "n", " ", "E", "a", "s", "t", " ", "U", "S">>
    /\ nlp_result[1] # None
    /\ nlp_result[1].resource_type = "storage_account"
    /\ nlp_result[1].parameters["account_type"] = "Standard_LRS"
    /\ nlp_result[1].parameters["access_tier"] = "Hot"
    /\ nlp_result[2] = <<>>
====
